---------------------------- MODULE Spec2Model ----------------------------
(***************************************************************************)
(* leben-regex: a regular-expression engine.  A pattern is translated      *)
(* into an NFA graph (add_alt), its epsilon edges are collapsed            *)
(* (Graph::collapse_epsilons), the graph is compiled into one boolean      *)
(* transition matrix per symbol, and matching is iterated matrix-vector    *)
(* multiplication (Regex::test, Regex::find).  The UTF-8 collaborator      *)
(* (decode_utf8, encode_utf8, UnicodeCodepoint::try_from) is modelled too, *)
(* as are a user of the graph API (regex/graph.rs) and calls of the        *)
(* operations of math.rs on their own.                                     *)
(***************************************************************************)
EXTENDS Integers, Sequences, FiniteSets, TLC

VARIABLES
    pc,           \* position of the caller: idle, collapse, collapsed, compiled, ...
    source,       \* the parsed pattern handed to Regex::new (RegexAst.root.node)
    graph,        \* the Graph under construction inside Regex::new
    a,            \* collapse_epsilons: the outer loop index
    regex,        \* the compiled Regex {token_matrices, final_nodes}
    new_err,      \* the Err value of Regex::new, <<"Ok">> when none
    string,       \* the codepoint string given to test / find
    test_result,  \* return value of Regex::test
    find_result,  \* return value of Regex::find
    GRAPH_ID,     \* the process-wide graph id counter
    utf8,         \* byte sequence given to decode_utf8
    unicode,      \* result of decode_utf8
    encoded,      \* result of encode_utf8 on the decoded codepoints
    value,        \* u32 given to UnicodeCodepoint::try_from, as <<high 16 bits, low 16 bits>>
    codepoint,    \* result of UnicodeCodepoint::try_from
    calls,        \* per caller of test / find: its position and its local variables
    graphs,       \* the Graph instances a user of the graph API holds
    handles,      \* the NodeRef values that user has been given
    last,         \* the graph API call made last, and whether it panicked
    cursor,       \* collapse_epsilons on one of graphs: the instance and the loop index
    ops,          \* number of graph API calls made
    math,         \* a call of a math.rs operation: arguments and outcome
    threads,      \* per thread creating graphs: its position in Graph::new / clone
    issued        \* the NodeRef values given to the threads, each with the graph it came from

vars == <<pc, source, graph, a, regex, new_err, string, test_result,
          find_result, GRAPH_ID, utf8, unicode, encoded, value, codepoint,
          calls, graphs, handles, last, cursor, ops, math, threads, issued>>

regexVars == <<pc, source, graph, a, regex, new_err, string, test_result,
               find_result, GRAPH_ID>>

utf8Vars == <<utf8, unicode, encoded, value, codepoint>>

\* the variables of Regex::new, test and find but the id counter
newVars == <<pc, source, graph, a, regex, new_err, string, test_result,
             find_result>>

callVars == <<calls>>

builderVars == <<graphs, handles, last, cursor, ops>>

mathVars == <<math>>

threadVars == <<threads, issued>>

-----------------------------------------------------------------------------
(* Bounds of the model *)

\* largest pattern explored: number of atoms plus number of '|' signs
MaxSize == 3
\* longest input string given to test / find
MaxLen == 3
\* longest byte sequence given to decode_utf8
MaxBytes == 4
\* cap on one node's edge lists while collapse_epsilons runs
MaxEdges == 8

\* callers of test / find on one shared Regex
MaxCallers == 2

\* length of the strings of concurrent calls
MaxSharedLen == 2

\* Graph instances a user of the graph API creates
MaxGraphs == 2

\* graph API calls that user makes
MaxOps == 6

\* threads that create graphs at the same time
MaxThreads == 2

\* graphs those threads create, and nodes they grow one to
MaxCreated == 3

MaxNodes == 2

\* rows and columns of the matrices given to the math.rs operations
MaxDim == 2

-----------------------------------------------------------------------------
(* Bit arithmetic on unsigned integers *)

RECURSIVE BitAnd(_, _)
BitAnd(x, y) ==
    IF x = 0 \/ y = 0 THEN 0
    ELSE (IF x % 2 = 1 /\ y % 2 = 1 THEN 1 ELSE 0) + 2 * BitAnd(x \div 2, y \div 2)

RECURSIVE BitOr(_, _)
BitOr(x, y) ==
    IF x = 0 THEN y
    ELSE IF y = 0 THEN x
    ELSE (IF x % 2 = 1 \/ y % 2 = 1 THEN 1 ELSE 0) + 2 * BitOr(x \div 2, y \div 2)

Shr(x, n) == x \div (2 ^ n)

Shl(x, n) == x * (2 ^ n)

\* utf8.rs: fn trunc_u8(x: u32) -> u8 { x as u8 }
trunc_u8(x) == x % 256

-----------------------------------------------------------------------------
(* utf8.rs *)

\* Result<_, _> values: ok, the Ok payload, the Err payload (<<"Ok">> when ok)
Ok(v) == [ok |-> TRUE, val |-> v, err |-> <<"Ok">>]

Err(e) == [ok |-> FALSE, val |-> <<>>, err |-> e]

\* a u32 kept as <<high 16 bits, low 16 bits>>; k is a constant below 2^31
U32Less(v, k) ==
    \/ v[1] < k \div 65536
    \/ v[1] = k \div 65536 /\ v[2] < k % 65536

U32Value(v) == v[1] * 65536 + v[2]

\* try_from with the end of the surrogate range one too low
try_from_early_surrogate_end(v) ==
    IF U32Less(v, 55296) THEN Ok(U32Value(v))
    ELSE IF U32Less(v, 57343) THEN Err(<<"SurrogateCodepoint", v>>)
    ELSE IF U32Less(v, 1114112) THEN Ok(U32Value(v))
    ELSE Err(<<"OutsideOfRange", v>>)

\* impl TryFrom<u32> for UnicodeCodepoint
try_from(v) ==
    IF U32Less(v, 55296) THEN Ok(U32Value(v))
    ELSE IF U32Less(v, 57344) THEN Err(<<"SurrogateCodepoint", v>>)
    ELSE IF U32Less(v, 1114112) THEN Ok(U32Value(v))
    ELSE Err(<<"OutsideOfRange", v>>)

\* encode_codepoint with the two-byte form used up to 1 << 12
encode_codepoint_wide_two_bytes(c) ==
    IF c < Shl(1, 7) THEN <<trunc_u8(c)>>
    ELSE IF c < Shl(1, 12) THEN
        << BitOr(192, trunc_u8(Shr(c, 6))),
           BitOr(128, trunc_u8(BitAnd(c, 63))) >>
    ELSE IF c < Shl(1, 16) THEN
        << BitOr(224, trunc_u8(Shr(c, 12))),
           BitOr(128, trunc_u8(BitAnd(Shr(c, 6), 63))),
           BitOr(128, trunc_u8(BitAnd(c, 63))) >>
    ELSE
        << BitOr(240, trunc_u8(Shr(c, 18))),
           BitOr(128, trunc_u8(BitAnd(Shr(c, 12), 63))),
           BitOr(128, trunc_u8(BitAnd(Shr(c, 6), 63))),
           BitOr(128, trunc_u8(BitAnd(c, 63))) >>

\* the bytes encode_utf8 pushes for one codepoint
encode_codepoint(c) ==
    IF c < Shl(1, 7) THEN <<trunc_u8(c)>>
    ELSE IF c < Shl(1, 11) THEN
        << BitOr(192, trunc_u8(Shr(c, 6))),
           BitOr(128, trunc_u8(BitAnd(c, 63))) >>
    ELSE IF c < Shl(1, 16) THEN
        << BitOr(224, trunc_u8(Shr(c, 12))),
           BitOr(128, trunc_u8(BitAnd(Shr(c, 6), 63))),
           BitOr(128, trunc_u8(BitAnd(c, 63))) >>
    ELSE
        << BitOr(240, trunc_u8(Shr(c, 18))),
           BitOr(128, trunc_u8(BitAnd(Shr(c, 12), 63))),
           BitOr(128, trunc_u8(BitAnd(Shr(c, 6), 63))),
           BitOr(128, trunc_u8(BitAnd(c, 63))) >>

RECURSIVE encode_utf8(_)
encode_utf8(cps) ==
    IF cps = <<>> THEN <<>>
    ELSE encode_codepoint(Head(cps)) \o encode_utf8(Tail(cps))

\* decode_utf8: the 2-byte branch, b0 >> 5 == 0b110
decode2(b0, b1) ==
    LET c == BitOr(Shl(BitAnd(b0, 31), 6), BitAnd(b1, 63))
    IN  IF c < 128 THEN Err(<<"OverlongEncoding", c>>) ELSE Ok(c)

\* decode_utf8: the 3-byte branch, b0 >> 4 == 0b1110
decode3(b0, b1, b2) ==
    LET c == BitOr(BitOr(Shl(BitAnd(b0, 15), 12), Shl(BitAnd(b1, 63), 6)),
                   BitAnd(b2, 63))
    IN  IF c < 2048 THEN Err(<<"OverlongEncoding", c>>)
        ELSE IF c >= 55296 /\ c < 57344 THEN
            Err(<<"UnicodeError", <<"SurrogateCodepoint", c>> >>)
        ELSE Ok(c)

\* decode_utf8: the 4-byte branch, b0 >> 3 == 0b1_1110
decode4(b0, b1, b2, b3) ==
    LET c == BitOr(BitOr(BitOr(Shl(BitAnd(b0, 7), 18), Shl(BitAnd(b1, 63), 12)),
                         Shl(BitAnd(b2, 63), 6)),
                   BitAnd(b3, 63))
    IN  IF c < 65536 THEN Err(<<"OverlongEncoding", c>>) ELSE Ok(c)

\* decode_utf8: the while loop; pos is the iterator's position (1-based)
RECURSIVE decode_loop(_, _, _)
decode_loop(bytes, pos, out) ==
    IF pos > Len(bytes) THEN Ok(out)
    ELSE LET b0 == bytes[pos] IN
    IF Shr(b0, 7) = 0 THEN decode_loop(bytes, pos + 1, Append(out, b0))
    ELSE IF pos + 1 > Len(bytes) THEN Err(<<"UnexpectedEndOfStream">>)
    ELSE LET b1 == bytes[pos + 1] IN
    IF Shr(b1, 6) # 2 THEN Err(<<"InvalidByte2", trunc_u8(b0), trunc_u8(b1)>>)
    ELSE IF Shr(b0, 5) = 6 THEN
        LET r == decode2(b0, b1)
        IN  IF r.ok THEN decode_loop(bytes, pos + 2, Append(out, r.val)) ELSE r
    ELSE IF pos + 2 > Len(bytes) THEN Err(<<"UnexpectedEndOfStream">>)
    ELSE LET b2 == bytes[pos + 2] IN
    IF Shr(b2, 6) # 2 THEN
        Err(<<"InvalidByte3", trunc_u8(b0), trunc_u8(b1), trunc_u8(b2)>>)
    ELSE IF Shr(b0, 4) = 14 THEN
        LET r == decode3(b0, b1, b2)
        IN  IF r.ok THEN decode_loop(bytes, pos + 3, Append(out, r.val)) ELSE r
    ELSE IF pos + 3 > Len(bytes) THEN Err(<<"UnexpectedEndOfStream">>)
    ELSE LET b3 == bytes[pos + 3] IN
    IF Shr(b3, 6) # 2 THEN
        Err(<<"InvalidByte4", trunc_u8(b0), trunc_u8(b1), trunc_u8(b2), trunc_u8(b3)>>)
    ELSE IF Shr(b0, 3) = 30 THEN
        LET r == decode4(b0, b1, b2, b3)
        IN  IF r.ok THEN decode_loop(bytes, pos + 4, Append(out, r.val)) ELSE r
    ELSE Err(<<"InvalidByte1", trunc_u8(b0)>>)

decode_utf8(bytes) == decode_loop(bytes, 1, <<>>)

-----------------------------------------------------------------------------
(* regex/parse.rs: the syntax tree.  AltExpr is a non-empty sequence of     *)
(* ConcatExpr, ConcatExpr a sequence of KleeneExpr [atom, star], an Atom is *)
(* a CharacterAtom (alt = <<>>) or a Capture (alt = its AltExpr).           *)

\* Character::Ascii 'a'
CharA == [kind |-> "Ascii", span |-> <<97>>]

\* Character::Unicode U+00E9, two bytes
CharE == [kind |-> "Unicode", span |-> <<195, 169>>]

\* Character::Unicode whose bytes are an overlong encoding of NUL
CharBad == [kind |-> "Unicode", span |-> <<192, 128>>]

\* Character::Unicode whose bytes encode the surrogate U+D800
CharSur == [kind |-> "Unicode", span |-> <<237, 160, 128>>]

\* Character::Escaped "\*"
CharStar == [kind |-> "Escaped", span |-> <<92, 42>>]

Characters == {CharA, CharE, CharBad, CharSur}

CharacterAtom(c) == [kind |-> "CharacterAtom", c |-> c, alt |-> <<>>]

Capture(alt) == [kind |-> "Capture", c |-> CharA, alt |-> alt]

KleeneExpr(atom, star) == [atom |-> atom, star |-> star]

\* impl Character { fn to_codepoint }
to_codepoint(c) ==
    IF c.kind = "Ascii" THEN
        LET r == try_from(<<0, c.span[1]>>) IN Ok(r.val)
    ELSE IF c.kind = "Unicode" THEN
        LET s == decode_utf8(c.span)
        IN  IF s.ok THEN Ok(s.val[1]) ELSE s
    ELSE Ok(c.span[2])

\* the syntax trees of a given size (atoms plus '|' signs)
RECURSIVE AltsOfSize(_)
RECURSIVE ConcatsOfSize(_)
KleenesOfSize(n) ==
    IF n = 0 THEN {}
    ELSE (IF n = 1
          THEN {KleeneExpr(CharacterAtom(c), st) : c \in Characters, st \in BOOLEAN}
          ELSE {})
         \cup {KleeneExpr(Capture(alt), st) : alt \in AltsOfSize(n - 1), st \in BOOLEAN}

ConcatsOfSize(n) ==
    IF n = 0 THEN {<<>>}
    ELSE UNION {{<<k>> \o rest : k \in KleenesOfSize(m), rest \in ConcatsOfSize(n - m)}
                : m \in 1..n}

AltsOfSize(n) ==
    {<<c>> : c \in ConcatsOfSize(n)}
    \cup UNION {{<<c>> \o rest : c \in ConcatsOfSize(m), rest \in AltsOfSize(n - 1 - m)}
                : m \in 0..(n - 1)}

Patterns == UNION {AltsOfSize(n) : n \in 0..MaxSize}

-----------------------------------------------------------------------------
(* regex/graph.rs *)

\* #[derive(Default)] struct Node
NodeDefault == [is_final |-> FALSE, edges |-> <<>>, epsilon_edges |-> <<>>]

NodeRef(id, index) == [graph_id |-> id, index |-> index]

\* a read and a write of the counter that another thread's write overtakes:
\* the increment is lost
fetch_add_lost_update(counter, val) == [ret |-> counter, stored |-> counter]

\* GRAPH_ID.fetch_add(val, Ordering::Relaxed): one atomic read-modify-write;
\* it returns the previous value
fetch_add(counter, val) == [ret |-> counter, stored |-> counter + val]

\* Graph::new, with the id drawn from GRAPH_ID
GraphNew(id) == [nodes |-> <<NodeDefault>>, id |-> id]

owns_node(g, x) == g.id = x.graph_id

get_initial_node(g) == NodeRef(g.id, 0)

\* Graph::add_node: the graph after the push; the handle is LastNode of it
add_node(g) == [g EXCEPT !.nodes = Append(@, NodeDefault)]

LastNode(g) == NodeRef(g.id, Len(g.nodes) - 1)

\* get_node / get_node_mut: assert!(self.owns_node(x))
get_node_asserts(g, x) == owns_node(g, x)

\* asserts of connect that look at the source handle only
connect_asserts_source_only(g, x, y) == get_node_asserts(g, x)

\* connect / connect_epsilon: assert!(self.owns_node(y)), then get_node_mut(x)
connect_asserts(g, x, y) == owns_node(g, y) /\ get_node_asserts(g, x)

\* Graph::connect; the graph is left as it is when an assertion fails
connect(g, x, y, token) ==
    IF connect_asserts(g, x, y)
    THEN [g EXCEPT !.nodes[x.index + 1].edges = Append(@, <<y.index, token>>)]
    ELSE g

\* Graph::connect_epsilon
connect_epsilon(g, x, y) ==
    IF connect_asserts(g, x, y)
    THEN [g EXCEPT !.nodes[x.index + 1].epsilon_edges = Append(@, y.index)]
    ELSE g

\* Graph::set_final
set_final(g, x) ==
    IF get_node_asserts(g, x)
    THEN [g EXCEPT !.nodes[x.index + 1].is_final = TRUE]
    ELSE g

\* Graph::is_final, for a handle that passes the assertion
is_final(g, x) == g.nodes[x.index + 1].is_final

\* Graph::get_connections: the handles the iterator yields
get_connections(g, x) ==
    [e \in 1..Len(g.nodes[x.index + 1].edges) |->
        NodeRef(g.id, g.nodes[x.index + 1].edges[e][1])]

\* Graph::get_epsilon_connections
get_epsilon_connections(g, x) ==
    [e \in 1..Len(g.nodes[x.index + 1].epsilon_edges) |->
        NodeRef(g.id, g.nodes[x.index + 1].epsilon_edges[e])]

\* impl Clone for Graph, with the id drawn from GRAPH_ID
clone(g, id) == [nodes |-> g.nodes, id |-> id]

\* collapse_pop that does not hand b's final flag on to n
collapse_pop_keeps_flag(g, n) ==
    LET eps  == g.nodes[n + 1].epsilon_edges
        b    == eps[Len(eps)]
        rest == SubSeq(eps, 1, Len(eps) - 1)
        nb   == g.nodes[b + 1]
        na   == g.nodes[n + 1]
    IN  IF n = b
        THEN [g EXCEPT !.nodes[n + 1].epsilon_edges = rest]
        ELSE [g EXCEPT !.nodes[n + 1] =
                  [is_final      |-> na.is_final,
                   edges         |-> na.edges \o nb.edges,
                   epsilon_edges |-> rest \o nb.epsilon_edges]]

\* collapse_pop that does not take over b's epsilon targets
collapse_pop_drops_targets(g, n) ==
    LET eps  == g.nodes[n + 1].epsilon_edges
        b    == eps[Len(eps)]
        rest == SubSeq(eps, 1, Len(eps) - 1)
        nb   == g.nodes[b + 1]
        na   == g.nodes[n + 1]
    IN  IF n = b
        THEN [g EXCEPT !.nodes[n + 1].epsilon_edges = rest]
        ELSE [g EXCEPT !.nodes[n + 1] =
                  [is_final      |-> IF nb.is_final THEN TRUE ELSE na.is_final,
                   edges         |-> na.edges \o nb.edges,
                   epsilon_edges |-> rest]]

\* collapse_pop that moves b's epsilon targets to n instead of copying them
collapse_pop_moves_targets(g, n) ==
    LET eps  == g.nodes[n + 1].epsilon_edges
        b    == eps[Len(eps)]
        rest == SubSeq(eps, 1, Len(eps) - 1)
        nb   == g.nodes[b + 1]
        na   == g.nodes[n + 1]
    IN  IF n = b
        THEN [g EXCEPT !.nodes[n + 1].epsilon_edges = rest]
        ELSE [g EXCEPT !.nodes[n + 1] =
                  [is_final      |-> IF nb.is_final THEN TRUE ELSE na.is_final,
                   edges         |-> na.edges \o nb.edges,
                   epsilon_edges |-> rest \o nb.epsilon_edges],
                       !.nodes[b + 1].epsilon_edges = <<>>]

\* collapse_pop that takes b's final flag as n's
collapse_pop_final_from_b(g, n) ==
    LET eps  == g.nodes[n + 1].epsilon_edges
        b    == eps[Len(eps)]
        rest == SubSeq(eps, 1, Len(eps) - 1)
        nb   == g.nodes[b + 1]
        na   == g.nodes[n + 1]
    IN  IF n = b
        THEN [g EXCEPT !.nodes[n + 1].epsilon_edges = rest]
        ELSE [g EXCEPT !.nodes[n + 1] =
                  [is_final      |-> nb.is_final,
                   edges         |-> na.edges \o nb.edges,
                   epsilon_edges |-> rest \o nb.epsilon_edges]]

\* collapse_epsilons: one iteration of the while-let loop of node n, which
\* pops b from n's epsilon list (indices are 0-based, sequences 1-based)
collapse_pop(g, n) ==
    LET eps  == g.nodes[n + 1].epsilon_edges
        b    == eps[Len(eps)]
        rest == SubSeq(eps, 1, Len(eps) - 1)
        nb   == g.nodes[b + 1]
        na   == g.nodes[n + 1]
    IN  IF n = b
        THEN [g EXCEPT !.nodes[n + 1].epsilon_edges = rest]
        ELSE [g EXCEPT !.nodes[n + 1] =
                  [is_final      |-> IF nb.is_final THEN TRUE ELSE na.is_final,
                   edges         |-> na.edges \o nb.edges,
                   epsilon_edges |-> rest \o nb.epsilon_edges]]

-----------------------------------------------------------------------------
(* regex.rs: the translation of the tree into the graph *)

\* add_alt's state: the graph and the first conversion error (<<"Ok">>: none)
RECURSIVE add_alt(_, _, _, _)
RECURSIVE add_parts(_, _, _, _, _)
RECURSIVE add_alts(_, _, _, _, _)

\* add_alts that goes on after a failure and reports the last one
add_alts_keeps_going(st, start, end, alts, i) ==
    IF i > Len(alts) THEN st
    ELSE LET r    == add_alt(st.g, start, end, alts[i])
             rest == add_alts([r EXCEPT !.err = <<"Ok">>], start, end, alts, i + 1)
         IN  IF rest.err # <<"Ok">> THEN rest ELSE [rest EXCEPT !.err = r.err]

\* for a in alt.alts.nodes { add_alt(graph, prev, next, a)?; }
add_alts(st, start, end, alts, i) ==
    IF i > Len(alts) THEN st
    ELSE LET r == add_alt(st.g, start, end, alts[i])
         IN  IF r.err # <<"Ok">> THEN r
             ELSE add_alts(r, start, end, alts, i + 1)

\* for p in alt.parts.nodes { ... } followed by the closing epsilon edge
add_parts(st, prev, end, parts, i) ==
    IF i > Len(parts) THEN
        IF prev # end
        THEN [st EXCEPT !.g = connect_epsilon(st.g, prev, end)]
        ELSE st
    ELSE
        LET p         == parts[i]
            is_kleene == p.star
            g1        == IF is_kleene THEN st.g ELSE add_node(st.g)
            next      == IF is_kleene THEN prev ELSE LastNode(g1)
        IN  IF p.atom.kind = "CharacterAtom" THEN
                LET token == to_codepoint(p.atom.c)
                IN  IF ~token.ok THEN [g |-> g1, err |-> token.err]
                    ELSE add_parts([g |-> connect(g1, prev, next, token.val),
                                    err |-> <<"Ok">>],
                                   next, end, parts, i + 1)
            ELSE
                LET r == add_alts([g |-> g1, err |-> <<"Ok">>],
                                  prev, next, p.atom.alt, 1)
                IN  IF r.err # <<"Ok">> THEN r
                    ELSE add_parts(r, next, end, parts, i + 1)

add_alt(g, start, end, alt) ==
    add_parts([g |-> g, err |-> <<"Ok">>], start, end, alt, 1)

\* Regex::new, lines 66-74: the graph before collapse_epsilons
Translate(root, id) ==
    LET g0         == GraphNew(id)
        start_node == get_initial_node(g0)
        g1         == add_node(g0)
        final_node == LastNode(g1)
        g2         == set_final(g1, final_node)
    IN  add_alts([g |-> g2, err |-> <<"Ok">>], start_node, final_node, root, 1)

-----------------------------------------------------------------------------
(* math.rs: BitMatrix [size_i, size_j, el], BitVector and NfaVector         *)
(* [size, el]; el is the boxed slice, element k of it is el[k + 1].         *)

\* Option<usize>
None == <<>>

Some(x) == <<x>>

BitMatrixNew(sx, sy) ==
    [size_i |-> sx, size_j |-> sy, el |-> [k \in 1..(sx * sy) |-> FALSE]]

\* BitMatrix::index
BitMatrixIndex(m, i, j) == m.size_j * i + j

BitMatrixGet(m, i, j) == m.el[BitMatrixIndex(m, i, j) + 1]

BitMatrixSet(m, i, j, v) == [m EXCEPT !.el[BitMatrixIndex(m, i, j) + 1] = v]

\* the assert! lines of BitMatrix::get and BitMatrix::set
BitMatrixGetAsserts(m, i, j) == i < m.size_i /\ j < m.size_j

\* the assert_eq! lines of BitMatrix::mult
BitMatrixMultAsserts(m, b, c) ==
    /\ m.size_i = b.size_j
    /\ c.size_i = b.size_i
    /\ c.size_j = m.size_j

\* BitMatrix::mult: the loop "for k in 0..n" of cell (i, j), from k on:
\* "true", "false", or "panic" when a get fails its assertion
RECURSIVE BitMatrixMultCell(_, _, _, _, _, _)
BitMatrixMultCell(m, b, i, j, k, n) ==
    IF k >= n THEN "false"
    ELSE IF ~BitMatrixGetAsserts(m, i, k) THEN "panic"
    ELSE IF ~BitMatrixGet(m, i, k) THEN BitMatrixMultCell(m, b, i, j, k + 1, n)
    ELSE IF ~BitMatrixGetAsserts(b, k, j) THEN "panic"
    ELSE IF BitMatrixGet(b, k, j) THEN "true"
    ELSE BitMatrixMultCell(m, b, i, j, k + 1, n)

\* BitMatrix::mult(m, b, c): whether it panics, and c when it stops; the
\* cells are written in the order of enumerate_iter_mut, up to the first
\* one whose loop panics
BitMatrixMult(m, b, c) ==
    IF ~BitMatrixMultAsserts(m, b, c) THEN [panic |-> TRUE, c |-> c]
    ELSE
        LET n     == m.size_i
            cells == [idx \in 1..(c.size_i * c.size_j) |->
                         BitMatrixMultCell(m, b, (idx - 1) \div c.size_j,
                                           (idx - 1) % c.size_j, 0, n)]
            bad   == {idx \in DOMAIN cells : cells[idx] = "panic"}
            stop  == IF bad = {} THEN c.size_i * c.size_j + 1
                     ELSE CHOOSE idx \in bad : \A other \in bad : idx <= other
        IN  [panic |-> bad # {},
             c     |-> [c EXCEPT !.el = [idx \in DOMAIN c.el |->
                                            IF idx < stop THEN cells[idx] = "true"
                                            ELSE c.el[idx]]]]

BitVectorNew(size) == [size |-> size, el |-> [k \in 1..size |-> FALSE]]

BitVectorGet(v, i) == v.el[i + 1]

BitVectorSet(v, i, x) == [v EXCEPT !.el[i + 1] = x]

\* the assert_eq! lines of BitVector::mult and of NfaVector::mult
MultAsserts(m, b, c) == m.size_i = b.size /\ m.size_j = c.size

\* BitVector::mult that reads the matrix with its indices exchanged
BitVectorMult_transposed(m, b, c) ==
    LET n == m.size_i
    IN  [c EXCEPT !.el = [i \in 1..c.size |->
            \E k \in 0..(n - 1) : BitMatrixGet(m, k, i - 1) /\ BitVectorGet(b, k)]]

\* BitVector::mult(a, b, c): the new contents of c
BitVectorMult(m, b, c) ==
    LET n == m.size_i
    IN  [c EXCEPT !.el = [i \in 1..c.size |->
            \E k \in 0..(n - 1) : BitMatrixGet(m, i - 1, k) /\ BitVectorGet(b, k)]]

\* the assert! line of BitVector::get
BitVectorGetAsserts(v, i) == i < v.size

\* BitVector::mult: the loop "for k in 0..n" of element i, from k on: "true",
\* "false", or "panic" when a get fails its assertion; b.get(k) is only
\* evaluated when a.get(i, k) is true
RECURSIVE BitVectorMultCell(_, _, _, _, _)
BitVectorMultCell(m, b, i, k, n) ==
    IF k >= n THEN "false"
    ELSE IF ~BitMatrixGetAsserts(m, i, k) THEN "panic"
    ELSE IF ~BitMatrixGet(m, i, k) THEN BitVectorMultCell(m, b, i, k + 1, n)
    ELSE IF ~BitVectorGetAsserts(b, k) THEN "panic"
    ELSE IF BitVectorGet(b, k) THEN "true"
    ELSE BitVectorMultCell(m, b, i, k + 1, n)

\* BitVector::mult(a, b, c) with its assertions: whether it panics, and c
\* when it stops; the elements are written in the order of
\* enumerate_iter_mut, up to the first one whose loop panics
BitVectorMultChecked(m, b, c) ==
    IF ~MultAsserts(m, b, c) THEN [panic |-> TRUE, c |-> c]
    ELSE
        LET n     == m.size_i
            cells == [idx \in 1..c.size |-> BitVectorMultCell(m, b, idx - 1, 0, n)]
            bad   == {idx \in DOMAIN cells : cells[idx] = "panic"}
            stop  == IF bad = {} THEN c.size + 1
                     ELSE CHOOSE idx \in bad : \A other \in bad : idx <= other
        IN  [panic |-> bad # {},
             c     |-> [c EXCEPT !.el = [idx \in DOMAIN c.el |->
                                            IF idx < stop THEN cells[idx] = "true"
                                            ELSE c.el[idx]]]]

\* BitVector::dot
BitVectorDot(x, y) ==
    \E i \in 0..(x.size - 1) : BitVectorGet(x, i) /\ BitVectorGet(y, i)

NfaVectorNew(size) == [size |-> size, el |-> [k \in 1..size |-> None]]

NfaVectorGet(v, i) == v.el[i + 1]

NfaVectorSet(v, i, x) == [v EXCEPT !.el[i + 1] = x]

\* a reset that leaves the vector as it is
NfaVectorReset_noop(v) == v

\* NfaVector::reset
NfaVectorReset(v) == [v EXCEPT !.el = [k \in 1..v.size |-> None]]

\* a combine rule that keeps the first reachable value it met
min_some_keeps_first(x, y) == IF x # None THEN x ELSE y

\* fn min_some
min_some(x, y) ==
    IF x = None /\ y = None THEN None
    ELSE IF y = None THEN x
    ELSE IF x = None THEN y
    ELSE Some(IF x[1] <= y[1] THEN x[1] ELSE y[1])

\* NfaVector::mult: the inner loop "for k in 0..n" for output index i
RECURSIVE NfaMultRow(_, _, _, _, _)
NfaMultRow(m, b, i, k, val) ==
    IF k >= m.size_i THEN val
    ELSE NfaMultRow(m, b, i, k + 1,
                    IF BitMatrixGet(m, i, k) THEN min_some(val, NfaVectorGet(b, k))
                    ELSE val)

\* NfaVector::mult(a, b, c): the new contents of c
NfaVectorMult(m, b, c) ==
    [c EXCEPT !.el = [i \in 1..c.size |-> NfaMultRow(m, b, i - 1, 0, None)]]

\* NfaVector::dot: the fold over the zipped elements, from element k on
RECURSIVE NfaDotFold(_, _, _, _)
NfaDotFold(x, y, k, acc) ==
    IF k >= x.size \/ k >= y.size THEN acc
    ELSE NfaDotFold(x, y, k + 1,
                    min_some(acc, IF x.el[k + 1] # None /\ y.el[k + 1]
                                  THEN x.el[k + 1] ELSE None))

NfaVectorDot(x, y) == NfaDotFold(x, y, 0, None)

\* the assert! line of NfaVector::get
NfaVectorGetAsserts(v, i) == i < v.size

\* NfaVector::mult: whether the loop "for k in 0..n" of element i fails the
\* assertion of a get; b.get(k) is only evaluated when a.get(i, k) is true
NfaMultRowPanics(m, b, i) ==
    \E k \in 0..(m.size_i - 1) :
        \/ ~BitMatrixGetAsserts(m, i, k)
        \/ BitMatrixGet(m, i, k) /\ ~NfaVectorGetAsserts(b, k)

\* NfaVector::mult(a, b, c) with its assertions: whether it panics, and c
\* when it stops; the elements are written in the order of
\* enumerate_iter_mut, up to the first one whose loop panics
NfaVectorMultChecked(m, b, c) ==
    IF ~MultAsserts(m, b, c) THEN [panic |-> TRUE, c |-> c]
    ELSE
        LET bad  == {idx \in 1..c.size : NfaMultRowPanics(m, b, idx - 1)}
            stop == IF bad = {} THEN c.size + 1
                    ELSE CHOOSE idx \in bad : \A other \in bad : idx <= other
        IN  [panic |-> bad # {},
             c     |-> [c EXCEPT !.el = [idx \in DOMAIN c.el |->
                                            IF idx < stop
                                            THEN NfaMultRow(m, b, idx - 1, 0, None)
                                            ELSE c.el[idx]]]]

\* NfaVector::dot(a, b) with its assertion
NfaVectorDotChecked(x, y) ==
    IF x.size # y.size THEN [panic |-> TRUE, ret |-> None]
    ELSE [panic |-> FALSE, ret |-> NfaVectorDot(x, y)]

-----------------------------------------------------------------------------
(* regex/compile.rs (Graph::compile) *)

\* every (source, target, token) labeled edge of the graph, 0-based
EdgeSet(g) ==
    UNION {{<<s - 1, g.nodes[s].edges[e][1], g.nodes[s].edges[e][2]>> :
                e \in 1..Len(g.nodes[s].edges)} : s \in 1..Len(g.nodes)}

\* compile with rows as sources and columns as targets
compile_transposed(g) ==
    LET N      == Len(g.nodes)
        edges  == EdgeSet(g)
        tokens == {e[3] : e \in edges}
    IN  [token_matrices |->
            [c \in tokens |->
                [size_i |-> N, size_j |-> N,
                 el |-> [k \in 1..(N * N) |->
                            <<(k - 1) \div N, (k - 1) % N, c>> \in edges]]],
         final_nodes |->
            [size |-> N, el |-> [i \in 1..N |-> g.nodes[i].is_final]]]

compile(g) ==
    LET N      == Len(g.nodes)
        edges  == EdgeSet(g)
        tokens == {e[3] : e \in edges}
    IN  [token_matrices |->
            [c \in tokens |->
                [size_i |-> N, size_j |-> N,
                 el |-> [k \in 1..(N * N) |->
                            <<(k - 1) % N, (k - 1) \div N, c>> \in edges]]],
         final_nodes |->
            [size |-> N, el |-> [i \in 1..N |-> g.nodes[i].is_final]]]

-----------------------------------------------------------------------------
(* regex.rs: the matcher *)

\* Regex::test: the loop "for token in string", from token i (1-based) on
RECURSIVE test_loop(_, _, _, _, _)
test_loop(r, str, i, accumulator, temp) ==
    IF i > Len(str) THEN
        [panic |-> FALSE, value |-> BitVectorDot(accumulator, r.final_nodes)]
    ELSE IF str[i] \notin DOMAIN r.token_matrices THEN
        [panic |-> FALSE, value |-> FALSE]
    ELSE
        LET matrix == r.token_matrices[str[i]]
        IN  IF ~MultAsserts(matrix, accumulator, temp)
            THEN [panic |-> TRUE, value |-> FALSE]
            ELSE test_loop(r, str, i + 1,
                           BitVectorMult(matrix, accumulator, temp), accumulator)

\* Regex::test
test(r, str) ==
    LET accumulator == BitVectorSet(BitVectorNew(r.final_nodes.size), 0, TRUE)
        temp        == BitVectorNew(accumulator.size)
    IN  test_loop(r, str, 1, accumulator, temp)

FindSome(start, len) == [kind |-> "Some", start |-> start, len |-> len]

FindNone == [kind |-> "None", start |-> 0, len |-> 0]

FindPanic == [kind |-> "Panic", start |-> 0, len |-> 0]

\* Regex::find: the value returned when a final state carries start_index
find_return(start_index, index) ==
    IF index - start_index < 0 THEN FindPanic
    ELSE FindSome(start_index, index - start_index + 1)

RECURSIVE find_loop(_, _, _, _, _)

\* find_loop that looks at the final states only after the last symbol
find_loop_match_at_end(r, str, index, accumulator, temp) ==
    IF index >= Len(str) THEN FindNone
    ELSE
        LET token == str[index + 1]
            acc1  == NfaVectorSet(accumulator, 0, Some(index))
        IN  IF token \notin DOMAIN r.token_matrices THEN
                find_loop(r, str, index + 1, NfaVectorReset(acc1), temp)
            ELSE
                LET matrix == r.token_matrices[token]
                    acc2   == NfaVectorMult(matrix, acc1, temp)
                    hit    == NfaVectorDot(acc2, r.final_nodes)
                IN  IF ~MultAsserts(matrix, acc1, temp) THEN FindPanic
                    ELSE IF hit # None /\ index + 1 = Len(str)
                    THEN find_return(hit[1], index)
                    ELSE find_loop(r, str, index + 1, acc2, acc1)

\* Regex::find: the loop over (token, index), from index (0-based) on
find_loop(r, str, index, accumulator, temp) ==
    IF index >= Len(str) THEN FindNone
    ELSE
        LET token == str[index + 1]
            acc1  == NfaVectorSet(accumulator, 0, Some(index))
        IN  IF token \notin DOMAIN r.token_matrices THEN
                find_loop(r, str, index + 1, NfaVectorReset(acc1), temp)
            ELSE
                LET matrix == r.token_matrices[token]
                    acc2   == NfaVectorMult(matrix, acc1, temp)
                    hit    == NfaVectorDot(acc2, r.final_nodes)
                IN  IF ~MultAsserts(matrix, acc1, temp) THEN FindPanic
                    ELSE IF hit # None THEN find_return(hit[1], index)
                    ELSE find_loop(r, str, index + 1, acc2, acc1)

\* find without the special case for a final initial node
find_without_special_case(r, str) ==
    LET accumulator == NfaVectorSet(NfaVectorNew(r.final_nodes.size), 0, Some(0))
        temp        == NfaVectorNew(accumulator.size)
    IN  find_loop(r, str, 0, accumulator, temp)

\* Regex::find
find(r, str) ==
    LET accumulator == NfaVectorSet(NfaVectorNew(r.final_nodes.size), 0, Some(0))
        temp        == NfaVectorNew(accumulator.size)
    IN  IF NfaVectorDot(accumulator, r.final_nodes) # None
        THEN FindSome(0, 0)
        ELSE find_loop(r, str, 0, accumulator, temp)

-----------------------------------------------------------------------------
(* regex.rs: test and find as their callers run them, one loop turn at a    *)
(* time; a call's record holds its local variables                          *)

\* no call in progress
IdleCall ==
    [pc |-> "idle", op |-> "none", string |-> <<>>, index |-> 0,
     accumulator |-> BitVectorNew(0), temp |-> BitVectorNew(0), result |-> <<>>]

\* the call returns v
Returned(st, v) == [st EXCEPT !.pc = "done", !.result = v]

\* Regex::test up to the loop: the call's own scratch vectors
test_begin(r, str) ==
    LET accumulator == BitVectorSet(BitVectorNew(r.final_nodes.size), 0, TRUE)
    IN  [pc |-> "loop", op |-> "test", string |-> str, index |-> 0,
         accumulator |-> accumulator, temp |-> BitVectorNew(accumulator.size),
         result |-> <<>>]

\* Regex::test: one turn of "for token in string", or the dot product after it
test_step(r, st) ==
    IF st.index >= Len(st.string) THEN
        Returned(st, [panic |-> FALSE,
                      value |-> BitVectorDot(st.accumulator, r.final_nodes)])
    ELSE IF st.string[st.index + 1] \notin DOMAIN r.token_matrices THEN
        Returned(st, [panic |-> FALSE, value |-> FALSE])
    ELSE
        LET matrix == r.token_matrices[st.string[st.index + 1]]
        IN  IF ~MultAsserts(matrix, st.accumulator, st.temp)
            THEN Returned(st, [panic |-> TRUE, value |-> FALSE])
            ELSE [st EXCEPT !.index = @ + 1,
                            !.accumulator = BitVectorMult(matrix, st.accumulator, st.temp),
                            !.temp = st.accumulator]

\* Regex::find up to the loop: the scratch vectors and the special case
find_begin(r, str) ==
    LET accumulator == NfaVectorSet(NfaVectorNew(r.final_nodes.size), 0, Some(0))
        st == [pc |-> "loop", op |-> "find", string |-> str, index |-> 0,
               accumulator |-> accumulator, temp |-> NfaVectorNew(accumulator.size),
               result |-> <<>>]
    IN  IF NfaVectorDot(accumulator, r.final_nodes) # None
        THEN Returned(st, FindSome(0, 0))
        ELSE st

\* find_step with the accumulator of caller 1 for every caller that runs find
find_step_shared_accumulator(r, st) ==
    IF st.index >= Len(st.string) THEN Returned(st, FindNone)
    ELSE
        LET index  == st.index
            token  == st.string[index + 1]
            shared == IF calls[1].op = "find" /\ calls[1].pc = "loop"
                      THEN calls[1].accumulator ELSE st.accumulator
            acc1   == NfaVectorSet(shared, 0, Some(index))
        IN  IF token \notin DOMAIN r.token_matrices THEN
                [st EXCEPT !.index = index + 1, !.accumulator = NfaVectorReset(acc1)]
            ELSE
                LET matrix == r.token_matrices[token]
                    acc2   == NfaVectorMult(matrix, acc1, st.temp)
                    hit    == NfaVectorDot(acc2, r.final_nodes)
                IN  IF ~MultAsserts(matrix, acc1, st.temp)
                    THEN Returned(st, FindPanic)
                    ELSE IF hit # None
                    THEN Returned(st, find_return(hit[1], index))
                    ELSE [st EXCEPT !.index = index + 1,
                                    !.accumulator = acc2, !.temp = acc1]

\* Regex::find: one turn of "for (token, index)", or the None after it
find_step(r, st) ==
    IF st.index >= Len(st.string) THEN Returned(st, FindNone)
    ELSE
        LET index == st.index
            token == st.string[index + 1]
            acc1  == NfaVectorSet(st.accumulator, 0, Some(index))
        IN  IF token \notin DOMAIN r.token_matrices THEN
                [st EXCEPT !.index = index + 1, !.accumulator = NfaVectorReset(acc1)]
            ELSE
                LET matrix == r.token_matrices[token]
                    acc2   == NfaVectorMult(matrix, acc1, st.temp)
                    hit    == NfaVectorDot(acc2, r.final_nodes)
                IN  IF ~MultAsserts(matrix, acc1, st.temp)
                    THEN Returned(st, FindPanic)
                    ELSE IF hit # None
                    THEN Returned(st, find_return(hit[1], index))
                    ELSE [st EXCEPT !.index = index + 1,
                                    !.accumulator = acc2, !.temp = acc1]

-----------------------------------------------------------------------------
(* The state machine *)

NoGraph == [nodes |-> <<>>, id |-> 0]

NoRegex == [token_matrices |-> <<>>, final_nodes |-> BitVectorNew(0)]

NoTest == [panic |-> FALSE, value |-> FALSE]

\* the symbols of the input strings: 'a' and U+00E9
InputAlphabet == {97, 233}

RECURSIVE SeqsUpTo(_, _)
SeqsUpTo(S, n) ==
    IF n = 0 THEN {<<>>}
    ELSE LET shorter == SeqsUpTo(S, n - 1)
         IN  shorter \cup {Append(q, x) : q \in {t \in shorter : Len(t) = n - 1}, x \in S}

Strings == SeqsUpTo(InputAlphabet, MaxLen)

\* the callers that share one Regex
Callers == 1..MaxCallers

\* the strings of the calls that run side by side
SharedStrings == SeqsUpTo(InputAlphabet, MaxSharedLen)

\* no graph API call made yet
NoCall == [op |-> "none", g |-> 0, x |-> NodeRef(0, 0), y |-> NodeRef(0, 0),
           panic |-> FALSE, ret |-> <<>>]

\* collapse_epsilons is not running
NoCursor == [g |-> 0, a |-> 0]

\* no math.rs operation called yet
NoMath == [op |-> "none"]

Threads == 1..MaxThreads

\* a thread outside Graph::new and Graph::clone
IdleThread == [pc |-> "idle", nodes |-> <<>>, id |-> 0]

Init ==
    /\ pc = "idle"
    /\ source = <<>>
    /\ graph = NoGraph
    /\ a = 0
    /\ regex = NoRegex
    /\ new_err = <<"Ok">>
    /\ string = <<>>
    /\ test_result = NoTest
    /\ find_result = FindNone
    /\ GRAPH_ID = 0
    /\ utf8 = <<>>
    /\ unicode = Ok(<<>>)
    /\ encoded = <<>>
    /\ value = <<0, 0>>
    /\ codepoint = Ok(0)
    /\ calls = [c \in Callers |-> IdleCall]
    /\ graphs = <<>>
    /\ handles = {}
    /\ last = NoCall
    /\ cursor = NoCursor
    /\ ops = 0
    /\ math = NoMath
    /\ threads = [t \in Threads |-> IdleThread]
    /\ issued = {}

\* Regex::new up to the call of collapse_epsilons (the tree is the parser's)
RegexNew ==
    /\ pc = "idle"
    /\ \E root \in Patterns :
          /\ source' = root
          /\ LET t == Translate(root, GRAPH_ID)
             IN  IF t.err # <<"Ok">>
                 THEN /\ pc' = "error"
                      /\ new_err' = <<"Utf8DecodeError", t.err>>
                      /\ graph' = NoGraph
                 ELSE /\ pc' = "collapse"
                      /\ new_err' = new_err
                      /\ graph' = t.g
    /\ a' = 0
    /\ GRAPH_ID' = GRAPH_ID + 1
    /\ UNCHANGED <<regex, string, test_result, find_result>>
    /\ UNCHANGED utf8Vars
    /\ UNCHANGED <<callVars, builderVars, mathVars, threadVars>>

\* collapse_epsilons: one pop of node a's epsilon list
CollapsePop ==
    /\ pc = "collapse"
    /\ a < Len(graph.nodes)
    /\ graph.nodes[a + 1].epsilon_edges # <<>>
    /\ Len(graph.nodes[a + 1].edges) <= MaxEdges
    /\ Len(graph.nodes[a + 1].epsilon_edges) <= MaxEdges
    /\ graph' = collapse_pop(graph, a)
    /\ UNCHANGED <<pc, source, a, regex, new_err, string, test_result,
                   find_result, GRAPH_ID>>
    /\ UNCHANGED utf8Vars
    /\ UNCHANGED <<callVars, builderVars, mathVars, threadVars>>

\* collapse_epsilons: node a's epsilon list is empty, the for loop moves on
CollapseNext ==
    /\ pc = "collapse"
    /\ a < Len(graph.nodes)
    /\ graph.nodes[a + 1].epsilon_edges = <<>>
    /\ a' = a + 1
    /\ UNCHANGED <<pc, source, graph, regex, new_err, string, test_result,
                   find_result, GRAPH_ID>>
    /\ UNCHANGED utf8Vars
    /\ UNCHANGED <<callVars, builderVars, mathVars, threadVars>>

\* collapse_epsilons has returned: graph.compile() and Ok(Regex {..}); graph
\* keeps the value that was moved into compile
Compile ==
    /\ pc = "collapse"
    /\ a = Len(graph.nodes)
    /\ regex' = compile(graph)
    /\ pc' = "compiled"
    /\ UNCHANGED <<source, graph, a, new_err, string, test_result,
                   find_result, GRAPH_ID>>
    /\ UNCHANGED utf8Vars
    /\ UNCHANGED <<callVars, builderVars, mathVars, threadVars>>

\* a call of Regex::test
Test ==
    /\ pc = "compiled"
    /\ \E str \in Strings :
          /\ string' = str
          /\ test_result' = test(regex, str)
    /\ pc' = "tested"
    /\ UNCHANGED <<source, graph, a, regex, new_err, find_result, GRAPH_ID>>
    /\ UNCHANGED utf8Vars
    /\ UNCHANGED <<callVars, builderVars, mathVars, threadVars>>

\* a call of Regex::find
Find ==
    /\ pc = "compiled"
    /\ \E str \in Strings :
          /\ string' = str
          /\ find_result' = find(regex, str)
    /\ pc' = "found"
    /\ UNCHANGED <<source, graph, a, regex, new_err, test_result, GRAPH_ID>>
    /\ UNCHANGED utf8Vars
    /\ UNCHANGED <<callVars, builderVars, mathVars, threadVars>>

Next ==
    \/ RegexNew
    \/ CollapsePop
    \/ CollapseNext
    \/ Compile
    \/ Test
    \/ Find

Spec == Init /\ [][Next]_vars

-----------------------------------------------------------------------------
(* The regular language of a syntax tree (standard semantics) *)

\* the symbol a literal stands for
Denotes(c) ==
    IF c = CharA THEN 97 ELSE IF c = CharE THEN 233 ELSE -1

RECURSIVE MatchAlt(_, _)
RECURSIVE MatchConcat(_, _, _)
RECURSIVE MatchStar(_, _)

MatchAtom(atom, s) ==
    IF atom.kind = "CharacterAtom" THEN s = <<Denotes(atom.c)>>
    ELSE MatchAlt(atom.alt, s)

MatchStar(atom, s) ==
    \/ s = <<>>
    \/ \E k \in 1..Len(s) :
          /\ MatchAtom(atom, SubSeq(s, 1, k))
          /\ MatchStar(atom, SubSeq(s, k + 1, Len(s)))

MatchKleene(p, s) ==
    IF p.star THEN MatchStar(p.atom, s) ELSE MatchAtom(p.atom, s)

MatchConcat(parts, i, s) ==
    IF i > Len(parts) THEN s = <<>>
    ELSE \E k \in 0..Len(s) :
            /\ MatchKleene(parts[i], SubSeq(s, 1, k))
            /\ MatchConcat(parts, i + 1, SubSeq(s, k + 1, Len(s)))

MatchAlt(alt, s) == \E i \in 1..Len(alt) : MatchConcat(alt[i], 1, s)

\* S[s .. s+l)
Slice(str, s, l) == SubSeq(str, s + 1, s + l)

-----------------------------------------------------------------------------
(* The UTF-8 collaborator as a state machine *)

\* bytes on both sides of every decision of decode_utf8
ByteSamples ==
    {0, 127, 128, 143, 144, 159, 160, 191, 192, 194, 223, 224, 237, 240, 244, 247, 248}

\* u32 values on both sides of every decision of try_from, up to 0xFFFFFFFF
U32Samples ==
    {<<h, l>> : h \in {0, 1, 16, 17, 18, 4096, 32767, 32768, 65535},
                l \in {0, 1, 55295, 55296, 55297, 57343, 57344, 65535}}

\* a call of decode_utf8
DecodeUtf8 ==
    /\ pc = "idle"
    /\ \E n \in 0..MaxBytes : \E bytes \in [1..n -> ByteSamples] :
          /\ utf8' = bytes
          /\ unicode' = decode_utf8(bytes)
    /\ pc' = "decoded"
    /\ UNCHANGED <<source, graph, a, regex, new_err, string, test_result,
                   find_result, GRAPH_ID, encoded, value, codepoint>>
    /\ UNCHANGED <<callVars, builderVars, mathVars, threadVars>>

\* a call of encode_utf8 on what decode_utf8 returned
EncodeUtf8 ==
    /\ pc = "decoded"
    /\ unicode.ok
    /\ encoded' = encode_utf8(unicode.val)
    /\ pc' = "encoded"
    /\ UNCHANGED <<source, graph, a, regex, new_err, string, test_result,
                   find_result, GRAPH_ID, utf8, unicode, value, codepoint>>
    /\ UNCHANGED <<callVars, builderVars, mathVars, threadVars>>

\* a call of UnicodeCodepoint::try_from
TryFrom ==
    /\ pc = "idle"
    /\ \E v \in U32Samples :
          /\ value' = v
          /\ codepoint' = try_from(v)
    /\ pc' = "converted"
    /\ UNCHANGED <<source, graph, a, regex, new_err, string, test_result,
                   find_result, GRAPH_ID, utf8, unicode, encoded>>
    /\ UNCHANGED <<callVars, builderVars, mathVars, threadVars>>

NextUtf8 ==
    \/ DecodeUtf8
    \/ EncodeUtf8
    \/ TryFrom

SpecUtf8 == Init /\ [][NextUtf8]_vars

-----------------------------------------------------------------------------
(* Claims about the UTF-8 collaborator, checked under SpecUtf8 *)

\* a Unicode scalar value: [0, 0xD800) or [0xE000, 0x110000)
IsScalarValue(c) == (0 <= c /\ c <= 55295) \/ (57344 <= c /\ c <= 1114111)

Cont(b) == 128 <= b /\ b <= 191

\* well-formed UTF-8 byte sequences (Unicode standard, table 3-7), from pos on
RECURSIVE WellFormedFrom(_, _)
WellFormedFrom(bytes, pos) ==
    LET n  == Len(bytes) - pos + 1
        b0 == bytes[pos]
        b1 == bytes[pos + 1]
        b2 == bytes[pos + 2]
        b3 == bytes[pos + 3]
    IN  \/ n = 0
        \/ n >= 1 /\ b0 <= 127 /\ WellFormedFrom(bytes, pos + 1)
        \/ n >= 2 /\ 194 <= b0 /\ b0 <= 223 /\ Cont(b1) /\ WellFormedFrom(bytes, pos + 2)
        \/ /\ n >= 3
           /\ \/ b0 = 224 /\ 160 <= b1 /\ b1 <= 191
              \/ 225 <= b0 /\ b0 <= 236 /\ Cont(b1)
              \/ b0 = 237 /\ 128 <= b1 /\ b1 <= 159
              \/ 238 <= b0 /\ b0 <= 239 /\ Cont(b1)
           /\ Cont(b2)
           /\ WellFormedFrom(bytes, pos + 3)
        \/ /\ n >= 4
           /\ \/ b0 = 240 /\ 144 <= b1 /\ b1 <= 191
              \/ 241 <= b0 /\ b0 <= 243 /\ Cont(b1)
              \/ b0 = 244 /\ 128 <= b1 /\ b1 <= 143
           /\ Cont(b2)
           /\ Cont(b3)
           /\ WellFormedFrom(bytes, pos + 4)

WellFormedUtf8(bytes) == WellFormedFrom(bytes, 1)

\* C8: decode_utf8 returns Ok only for well-formed UTF-8, and then every
\* decoded value is a Unicode scalar value (no surrogate, nothing >= 0x110000)
C8_DecodeOnlyScalarValues ==
    (pc = "decoded" /\ unicode.ok) =>
        /\ WellFormedUtf8(utf8)
        /\ \A i \in 1..Len(unicode.val) : IsScalarValue(unicode.val[i])

\* C9: for every well-formed UTF-8 byte sequence, decode_utf8 succeeds and
\* encode_utf8 of the decoded codepoints gives the same bytes back
C9_RoundTrip ==
    (pc \in {"decoded", "encoded"} /\ WellFormedUtf8(utf8)) =>
        /\ unicode.ok
        /\ pc = "encoded" => encoded = utf8

\* a 4-byte, a 3-byte, a 2-byte encoding and a NUL byte have made the trip
C9_Witness ==
    /\ pc = "encoded"
    /\ WellFormedUtf8(utf8)
    /\ utf8 \in {<<240, 144, 128, 191>>, <<224, 160, 128, 0>>, <<194, 128, 0, 127>>}

\* C10: try_from accepts exactly [0, 0xD800) and [0xE000, 0x110000), keeping
\* the value; SurrogateCodepoint(v) in between, OutsideOfRange(v) above
C10_TryFromRanges ==
    pc = "converted" =>
        LET hi == value[1]
            lo == value[2]
        IN  IF hi = 0 /\ lo >= 55296 /\ lo <= 57343
            THEN codepoint = Err(<<"SurrogateCodepoint", value>>)
            ELSE IF hi >= 17
            THEN codepoint = Err(<<"OutsideOfRange", value>>)
            ELSE codepoint = Ok(hi * 65536 + lo)

\* the largest u32 has been refused, as have a surrogate and 0x110000
C10_Witness ==
    /\ pc = "converted"
    /\ value \in {<<65535, 65535>>, <<0, 57343>>, <<17, 0>>}
    /\ ~codepoint.ok

-----------------------------------------------------------------------------
(* Claims about the matcher, checked under Spec *)

\* the compiled regex accepts S[s .. s+l) as a whole
TestAccepts(s, l) == test(regex, Slice(string, s, l)).value

\* C1: test(P, S) is true exactly when the whole of S is in the language of P
C1_TestIsLanguageMembership ==
    pc = "tested" =>
        /\ ~test_result.panic
        /\ test_result.value = MatchAlt(source, string)

\* C2: leftmost: when find returns Some((s, l)), P matches no substring of S
\* that starts before s
C2_FindLeftmost ==
    (pc = "found" /\ find_result.kind = "Some") =>
        \A s \in 0..(find_result.start - 1) :
            \A l \in 0..(Len(string) - s) :
                ~MatchAlt(source, Slice(string, s, l))

\* C3: shortest at start: when find returns Some((s, l)), P accepts no
\* S[s .. s+l') with l' < l
C3_FindShortestAtStart ==
    (pc = "found" /\ find_result.kind = "Some") =>
        \A l \in 0..(find_result.len - 1) :
            ~MatchAlt(source, Slice(string, find_result.start, l))

\* find has returned a match of two symbols or more that starts inside S
C3_Witness ==
    /\ pc = "found"
    /\ find_result.kind = "Some"
    /\ find_result.start >= 1
    /\ find_result.len >= 2

\* C4: find returns Some((0, 0)) exactly when P accepts the empty string,
\* whatever S holds
C4_FindEmptyMatch ==
    pc = "found" =>
        (MatchAlt(source, <<>>) <=> find_result = FindSome(0, 0))

\* P accepts the empty string, S is not empty and holds a symbol P has no
\* matrix for, and find returned Some((0, 0))
C4_Witness ==
    /\ pc = "found"
    /\ MatchAlt(source, <<>>)
    /\ \E i \in 1..Len(string) : string[i] \notin DOMAIN regex.token_matrices
    /\ find_result = FindSome(0, 0)

\* C6: a span find reports lies inside S and is accepted by test on its own
C6_FindSpanIsMatch ==
    (pc = "found" /\ find_result.kind # "None") =>
        /\ find_result.kind = "Some"
        /\ find_result.start + find_result.len <= Len(string)
        /\ TestAccepts(find_result.start, find_result.len)

\* find reported a non-empty span that ends before the end of S
C6_Witness ==
    /\ pc = "found"
    /\ find_result.kind = "Some"
    /\ find_result.len >= 1
    /\ find_result.start + find_result.len < Len(string)

\* C7: find returns None exactly when test accepts no contiguous substring
\* of S, the empty one included
C7_FindNoneIffNoSubstring ==
    pc = "found" =>
        (find_result.kind = "None" <=>
            \A s \in 0..Len(string) : \A l \in 0..(Len(string) - s) :
                ~TestAccepts(s, l))

\* a match found right after a symbol that has no transition matrix
C7_Witness ==
    /\ pc = "found"
    /\ find_result.kind = "Some"
    /\ find_result.start >= 1
    /\ string[find_result.start] \notin DOMAIN regex.token_matrices

-----------------------------------------------------------------------------
(* Claims about Regex::new, checked under Spec *)

\* the literals of a tree in the order of the pattern's text
RECURSIVE LiteralsOfAlt(_, _)
RECURSIVE LiteralsOfConcat(_, _)
LiteralsOfKleene(p) ==
    IF p.atom.kind = "CharacterAtom" THEN <<p.atom.c>>
    ELSE LiteralsOfAlt(p.atom.alt, 1)

LiteralsOfConcat(parts, i) ==
    IF i > Len(parts) THEN <<>>
    ELSE LiteralsOfKleene(parts[i]) \o LiteralsOfConcat(parts, i + 1)

LiteralsOfAlt(alt, i) ==
    IF i > Len(alt) THEN <<>>
    ELSE LiteralsOfConcat(alt[i], 1) \o LiteralsOfAlt(alt, i + 1)

\* the positions of the literals whose conversion fails
FailingLiterals(root) ==
    LET lits == LiteralsOfAlt(root, 1)
    IN  {i \in 1..Len(lits) : ~to_codepoint(lits[i]).ok}

\* the error of the leftmost literal whose conversion fails
FirstFailure(root) ==
    LET lits == LiteralsOfAlt(root, 1)
        bad  == FailingLiterals(root)
        i    == CHOOSE k \in bad : \A m \in bad : k <= m
    IN  to_codepoint(lits[i]).err

RegexNewHasRun == pc \in {"error", "collapse", "compiled", "tested", "found"}

\* C11: when the conversion of some literal of the pattern fails, Regex::new
\* returns Err(Utf8DecodeError(e)) with e the failure of the leftmost such
\* literal; no graph is collapsed and no Regex is built, and the error is not
\* a ParseError
C11_FirstConversionFailure ==
    (RegexNewHasRun /\ FailingLiterals(source) # {}) =>
        /\ pc = "error"
        /\ new_err = <<"Utf8DecodeError", FirstFailure(source)>>
        /\ new_err[1] # "ParseError"
        /\ regex = NoRegex

\* Regex::new failed on a pattern with two failing literals whose errors
\* differ, the first of them inside a capture
C11_Witness ==
    /\ pc = "error"
    /\ \E i \in 1..Len(source) : \E k \in 1..Len(source[i]) :
          /\ source[i][k].atom.kind = "Capture"
          /\ FailingLiterals(source[i][k].atom.alt) # {}
          /\ \A i2 \in 1..i : \A k2 \in 1..Len(source[i2]) :
                (i2 < i \/ k2 < k) =>
                    FailingLiterals(<<<<source[i2][k2]>>>>) = {}
    /\ LET lits == LiteralsOfAlt(source, 1)
       IN  \E m \in FailingLiterals(source) :
              to_codepoint(lits[m]).err # FirstFailure(source)

-----------------------------------------------------------------------------
(* Claims about collapse_epsilons, checked under Spec *)

\* the nodes (0-based) reachable from the nodes of S over epsilon edges only
RECURSIVE EpsilonClosure(_, _)
EpsilonClosure(g, S) ==
    LET T == S \cup UNION {{g.nodes[n + 1].epsilon_edges[e] :
                                e \in 1..Len(g.nodes[n + 1].epsilon_edges)} : n \in S}
    IN  IF T = S THEN S ELSE EpsilonClosure(g, T)

\* the (target, symbol) pairs of the labeled edges of node n
LabeledEdges(g, n) ==
    {g.nodes[n + 1].edges[e] : e \in 1..Len(g.nodes[n + 1].edges)}

\* the nodes an epsilon-NFA can be in after reading str[i..] from the set S
RECURSIVE RunFrom(_, _, _, _)
RunFrom(g, S, str, i) ==
    LET C == EpsilonClosure(g, S)
    IN  IF i > Len(str) THEN C
        ELSE RunFrom(g, {e[1] : e \in {d \in UNION {LabeledEdges(g, n) : n \in C} :
                                            d[2] = str[i]}},
                     str, i + 1)

\* the graph accepts str from node 0
GraphAccepts(g, str) ==
    \E n \in RunFrom(g, {0}, str, 1) : g.nodes[n + 1].is_final

\* the graph Regex::new handed to collapse_epsilons
PreCollapse == Translate(source, graph.id).g

\* C13: once collapse_epsilons has returned, no epsilon edge is left; a node
\* is final iff a node of its epsilon closure in the graph before the pass
\* was final; its labeled edges are those of the nodes of that closure; and
\* the graph accepts from node 0 the strings it accepted before
C13_CollapseIsClosure ==
    pc = "compiled" =>
        LET pre == PreCollapse
        IN  /\ \A n \in 0..(Len(graph.nodes) - 1) :
                  LET closure == EpsilonClosure(pre, {n})
                  IN  /\ graph.nodes[n + 1].epsilon_edges = <<>>
                      /\ graph.nodes[n + 1].is_final
                            <=> \E m \in closure : pre.nodes[m + 1].is_final
                      /\ LabeledEdges(graph, n)
                            = UNION {LabeledEdges(pre, m) : m \in closure}
            /\ \A str \in Strings : GraphAccepts(graph, str) <=> GraphAccepts(pre, str)

\* the pass has returned on a graph where some node was not final, reached
\* a final node over two epsilon edges or more, and gained labeled edges
C13_Witness ==
    /\ pc = "compiled"
    /\ LET pre == PreCollapse
       IN  \E n \in 0..(Len(pre.nodes) - 1) :
              /\ ~pre.nodes[n + 1].is_final
              /\ graph.nodes[n + 1].is_final
              /\ \A e \in 1..Len(pre.nodes[n + 1].epsilon_edges) :
                    ~pre.nodes[pre.nodes[n + 1].epsilon_edges[e] + 1].is_final
              /\ LabeledEdges(pre, n) # LabeledEdges(graph, n)

\* C15: for the epsilon-free graph with N nodes, compile gives one N-by-N
\* matrix per symbol that labels an edge, with entry (t, s) true iff the
\* graph has an edge with that symbol from s to t, no matrix for any other
\* symbol, and the final vector of the nodes' final flags
C15_CompileMatrices ==
    pc = "compiled" =>
        LET N == Len(graph.nodes)
        IN  /\ DOMAIN regex.token_matrices =
                  {e[2] : e \in UNION {LabeledEdges(graph, n) : n \in 0..(N - 1)}}
            /\ \A c \in DOMAIN regex.token_matrices :
                  LET M == regex.token_matrices[c]
                  IN  /\ M.size_i = N
                      /\ M.size_j = N
                      /\ DOMAIN M.el = 1..(N * N)
                      /\ \A src \in 0..(N - 1) : \A t \in 0..(N - 1) :
                            BitMatrixGet(M, t, src) <=> <<t, c>> \in LabeledEdges(graph, src)
            /\ regex.final_nodes.size = N
            /\ DOMAIN regex.final_nodes.el = 1..N
            /\ \A i \in 0..(N - 1) :
                  BitVectorGet(regex.final_nodes, i) = graph.nodes[i + 1].is_final

\* a graph of three nodes or more with edges for both symbols was compiled,
\* one of them an edge between two different nodes
C15_Witness ==
    /\ pc = "compiled"
    /\ Len(graph.nodes) >= 3
    /\ DOMAIN regex.token_matrices = {97, 233}
    /\ \E src \in 0..(Len(graph.nodes) - 1) : \E t \in 0..(Len(graph.nodes) - 1) :
          /\ src # t
          /\ BitMatrixGet(regex.token_matrices[233], t, src)
          /\ ~BitMatrixGet(regex.token_matrices[233], src, t)

-----------------------------------------------------------------------------
(* Callers of test / find on one Regex, each at its own pace *)

\* caller c enters Regex::test
CallTest(c, strs) ==
    /\ pc = "compiled"
    /\ calls[c].pc = "idle"
    /\ \E str \in strs : calls' = [calls EXCEPT ![c] = test_begin(regex, str)]
    /\ UNCHANGED <<regexVars, utf8Vars, builderVars, mathVars, threadVars>>

\* caller c enters Regex::find
CallFind(c, strs) ==
    /\ pc = "compiled"
    /\ calls[c].pc = "idle"
    /\ \E str \in strs : calls' = [calls EXCEPT ![c] = find_begin(regex, str)]
    /\ UNCHANGED <<regexVars, utf8Vars, builderVars, mathVars, threadVars>>

\* caller c runs one turn of the loop of its call
CallStep(c) ==
    /\ pc = "compiled"
    /\ calls[c].pc = "loop"
    /\ calls' = [calls EXCEPT ![c] = IF @.op = "test" THEN test_step(regex, @)
                                                      ELSE find_step(regex, @)]
    /\ UNCHANGED <<regexVars, utf8Vars, builderVars, mathVars, threadVars>>

\* caller c has its result and is free to call again
CallReturn(c) ==
    /\ pc = "compiled"
    /\ calls[c].pc = "done"
    /\ calls' = [calls EXCEPT ![c] = IdleCall]
    /\ UNCHANGED <<regexVars, utf8Vars, builderVars, mathVars, threadVars>>

\* one caller, strings up to MaxLen
NextTrace ==
    \/ RegexNew
    \/ CollapsePop
    \/ CollapseNext
    \/ Compile
    \/ CallTest(1, Strings)
    \/ CallFind(1, Strings)
    \/ CallStep(1)
    \/ CallReturn(1)

SpecTrace == Init /\ [][NextTrace]_vars

\* several callers on the same Regex
NextShared ==
    \/ RegexNew
    \/ CollapsePop
    \/ CollapseNext
    \/ Compile
    \/ \E c \in Callers : CallTest(c, SharedStrings)
    \/ \E c \in Callers : CallFind(c, SharedStrings)
    \/ \E c \in Callers : CallStep(c)
    \/ \E c \in Callers : CallReturn(c)

SpecShared == Init /\ [][NextShared]_vars

\* what the call of caller c returns when nothing else runs
Alone(c) ==
    IF calls[c].op = "test" THEN test(regex, calls[c].string)
    ELSE find(regex, calls[c].string)

\* C12: test and find leave the compiled Regex as Regex::new built it, and a
\* call that runs interleaved with the calls of other callers returns what
\* the same call returns alone
C12_SharedRegexCalls ==
    pc = "compiled" =>
        /\ regex = compile(graph)
        /\ \A c \in Callers :
              calls[c].pc = "done" => calls[c].result = Alone(c)

\* a find has returned a match that starts inside its string while a test
\* of another string was between two turns of its loop
C12_Witness ==
    /\ calls[1].pc = "done"
    /\ calls[1].op = "find"
    /\ calls[1].result.kind = "Some"
    /\ calls[1].result.start >= 1
    /\ calls[2].pc = "loop"
    /\ calls[2].op = "test"
    /\ calls[2].index >= 1
    /\ calls[2].index < Len(calls[2].string)
    /\ calls[2].string # calls[1].string

\* C19: a step of collapse_epsilons on node a changes no node but a, and
\* when the loop moves on to a node, that node still has the epsilon edges
\* it had before the pass
C19_CollapseTouchesOneNode ==
    [][pc = "collapse" =>
         /\ \A n \in 0..(Len(graph.nodes) - 1) :
               n # a => graph'.nodes[n + 1] = graph.nodes[n + 1]
         /\ (a' # a /\ a' < Len(graph.nodes)) =>
               graph'.nodes[a' + 1].epsilon_edges
                   = PreCollapse.nodes[a' + 1].epsilon_edges]_vars

\* the turn of a node other than node 0 has come: node 0 has taken over its
\* edges, and its own epsilon edges are still there
C19_Witness ==
    /\ pc = "collapse"
    /\ a >= 1
    /\ a < Len(graph.nodes)
    /\ a \in EpsilonClosure(PreCollapse, {0})
    /\ graph.nodes[1] # PreCollapse.nodes[1]
    /\ graph.nodes[a + 1].epsilon_edges # <<>>
    /\ graph.nodes[a + 1].epsilon_edges = PreCollapse.nodes[a + 1].epsilon_edges

-----------------------------------------------------------------------------
(* Claims about the scans of test and find, checked under SpecTrace *)

\* the start indices s <= i for which a run of the collapsed graph from
\* node 0 over str[s ..= i] (0-based) ends in node q
RunStarts(str, i, q) ==
    {s \in 0..i : q \in RunFrom(graph, {0}, SubSeq(str, s + 1, i + 1), 1)}

\* C14: after find has processed index i without returning, the accumulator
\* holds for every state q the smallest start of a run from state 0 that
\* ends in q at i, and None exactly when there is no such run
C14_FindScanInvariant ==
    (pc = "compiled" /\ calls[1].op = "find" /\ calls[1].pc = "loop"
        /\ calls[1].index >= 1) =>
        \A q \in 0..(calls[1].accumulator.size - 1) :
            LET starts == RunStarts(calls[1].string, calls[1].index - 1, q)
            IN  NfaVectorGet(calls[1].accumulator, q) =
                    IF starts = {} THEN None
                    ELSE Some(CHOOSE s \in starts : \A t \in starts : s <= t)

\* the nodes of the collapsed graph reached from node 0 over the first n
\* symbols of str
SetAfter(str, n) == RunFrom(graph, {0}, SubSeq(str, 1, n), 1)

\* C16: test is the set simulation of the collapsed graph: after each
\* consumed symbol its accumulator has q set iff q is in the set stepped from
\* {0} over the symbols read so far; it stops at a symbol without a matrix,
\* where that set is empty; and it returns true iff the last set holds a
\* final node
C16_TestIsSetSimulation ==
    (pc = "compiled" /\ calls[1].op = "test") =>
        LET st == calls[1]
        IN  /\ st.pc = "loop" =>
                  /\ st.accumulator.size = Len(graph.nodes)
                  /\ \A q \in 0..(Len(graph.nodes) - 1) :
                        BitVectorGet(st.accumulator, q) <=> q \in SetAfter(st.string, st.index)
            /\ st.pc = "done" =>
                  /\ ~st.result.panic
                  /\ st.index < Len(st.string) =>
                        /\ st.string[st.index + 1] \notin DOMAIN regex.token_matrices
                        /\ SetAfter(st.string, st.index + 1) = {}
                  /\ st.result.value <=>
                        \E q \in SetAfter(st.string, Len(st.string)) :
                            graph.nodes[q + 1].is_final

\* test has consumed two symbols or more and is in two states or more at
\* once, node 0 not among them
C16_Witness ==
    /\ pc = "compiled"
    /\ calls[1].op = "test"
    /\ calls[1].pc = "loop"
    /\ calls[1].index >= 2
    /\ ~BitVectorGet(calls[1].accumulator, 0)
    /\ Cardinality({q \in 0..(calls[1].accumulator.size - 1) :
                        BitVectorGet(calls[1].accumulator, q)}) >= 2

-----------------------------------------------------------------------------
(* A user of the graph API (regex/graph.rs): instances, clones and handles *)

\* the symbols of the edges that user adds
BuilderTokens == {97}

\* a call can be made: no collapse is running and no call has panicked
ApiReady == cursor = NoCursor /\ ~last.panic /\ ops < MaxOps

Called(op, k, x, y, panic, ret) ==
    [op |-> op, g |-> k, x |-> x, y |-> y, panic |-> panic, ret |-> ret]

\* Graph::new()
NewGraph ==
    /\ ApiReady
    /\ Len(graphs) < MaxGraphs
    /\ graphs' = Append(graphs, GraphNew(GRAPH_ID))
    /\ GRAPH_ID' = GRAPH_ID + 1
    /\ last' = Called("new", Len(graphs) + 1, NodeRef(0, 0), NodeRef(0, 0), FALSE, <<>>)
    /\ ops' = ops + 1
    /\ UNCHANGED <<handles, cursor>>
    /\ UNCHANGED <<newVars, utf8Vars, callVars, mathVars, threadVars>>

\* graphs[k].clone()
CloneGraph ==
    /\ ApiReady
    /\ Len(graphs) < MaxGraphs
    /\ \E k \in 1..Len(graphs) :
          /\ graphs' = Append(graphs, clone(graphs[k], GRAPH_ID))
          /\ last' = Called("clone", k, NodeRef(0, 0), NodeRef(0, 0), FALSE, <<>>)
    /\ GRAPH_ID' = GRAPH_ID + 1
    /\ ops' = ops + 1
    /\ UNCHANGED <<handles, cursor>>
    /\ UNCHANGED <<newVars, utf8Vars, callVars, mathVars, threadVars>>

\* graphs[k].get_initial_node()
GetInitialNode ==
    /\ ApiReady
    /\ \E k \in 1..Len(graphs) :
          LET x == get_initial_node(graphs[k])
          IN  /\ handles' = handles \cup {x}
              /\ last' = Called("get_initial_node", k, NodeRef(0, 0), NodeRef(0, 0),
                                FALSE, <<x>>)
    /\ ops' = ops + 1
    /\ UNCHANGED <<graphs, cursor, GRAPH_ID>>
    /\ UNCHANGED <<newVars, utf8Vars, callVars, mathVars, threadVars>>

\* graphs[k].add_node()
AddNode ==
    /\ ApiReady
    /\ \E k \in 1..Len(graphs) :
          LET g == add_node(graphs[k])
          IN  /\ graphs' = [graphs EXCEPT ![k] = g]
              /\ handles' = handles \cup {LastNode(g)}
              /\ last' = Called("add_node", k, NodeRef(0, 0), NodeRef(0, 0),
                                FALSE, <<LastNode(g)>>)
    /\ ops' = ops + 1
    /\ UNCHANGED <<cursor, GRAPH_ID>>
    /\ UNCHANGED <<newVars, utf8Vars, callVars, mathVars, threadVars>>

\* graphs[k].connect(x, y, token)
Connect ==
    /\ ApiReady
    /\ \E k \in 1..Len(graphs) : \E x \in handles : \E y \in handles :
       \E token \in BuilderTokens :
          /\ graphs' = [graphs EXCEPT ![k] = connect(@, x, y, token)]
          /\ last' = Called("connect", k, x, y, ~connect_asserts(graphs[k], x, y),
                            <<token>>)
    /\ ops' = ops + 1
    /\ UNCHANGED <<handles, cursor, GRAPH_ID>>
    /\ UNCHANGED <<newVars, utf8Vars, callVars, mathVars, threadVars>>

\* graphs[k].connect_epsilon(x, y)
ConnectEpsilon ==
    /\ ApiReady
    /\ \E k \in 1..Len(graphs) : \E x \in handles : \E y \in handles :
          /\ graphs' = [graphs EXCEPT ![k] = connect_epsilon(@, x, y)]
          /\ last' = Called("connect_epsilon", k, x, y,
                            ~connect_asserts(graphs[k], x, y), <<>>)
    /\ ops' = ops + 1
    /\ UNCHANGED <<handles, cursor, GRAPH_ID>>
    /\ UNCHANGED <<newVars, utf8Vars, callVars, mathVars, threadVars>>

\* graphs[k].set_final(x)
SetFinal ==
    /\ ApiReady
    /\ \E k \in 1..Len(graphs) : \E x \in handles :
          /\ graphs' = [graphs EXCEPT ![k] = set_final(@, x)]
          /\ last' = Called("set_final", k, x, x, ~get_node_asserts(graphs[k], x), <<>>)
    /\ ops' = ops + 1
    /\ UNCHANGED <<handles, cursor, GRAPH_ID>>
    /\ UNCHANGED <<newVars, utf8Vars, callVars, mathVars, threadVars>>

\* graphs[k].is_final(x)
IsFinal ==
    /\ ApiReady
    /\ \E k \in 1..Len(graphs) : \E x \in handles :
          last' = IF get_node_asserts(graphs[k], x)
                  THEN Called("is_final", k, x, x, FALSE, <<is_final(graphs[k], x)>>)
                  ELSE Called("is_final", k, x, x, TRUE, <<>>)
    /\ ops' = ops + 1
    /\ UNCHANGED <<graphs, handles, cursor, GRAPH_ID>>
    /\ UNCHANGED <<newVars, utf8Vars, callVars, mathVars, threadVars>>

\* graphs[k].get_connections(x)
GetConnections ==
    /\ ApiReady
    /\ \E k \in 1..Len(graphs) : \E x \in handles :
          IF get_node_asserts(graphs[k], x)
          THEN LET ret == get_connections(graphs[k], x)
               IN  /\ last' = Called("get_connections", k, x, x, FALSE, ret)
                   /\ handles' = handles \cup {ret[e] : e \in 1..Len(ret)}
          ELSE /\ last' = Called("get_connections", k, x, x, TRUE, <<>>)
               /\ handles' = handles
    /\ ops' = ops + 1
    /\ UNCHANGED <<graphs, cursor, GRAPH_ID>>
    /\ UNCHANGED <<newVars, utf8Vars, callVars, mathVars, threadVars>>

\* graphs[k].get_epsilon_connections(x)
GetEpsilonConnections ==
    /\ ApiReady
    /\ \E k \in 1..Len(graphs) : \E x \in handles :
          IF get_node_asserts(graphs[k], x)
          THEN LET ret == get_epsilon_connections(graphs[k], x)
               IN  /\ last' = Called("get_epsilon_connections", k, x, x, FALSE, ret)
                   /\ handles' = handles \cup {ret[e] : e \in 1..Len(ret)}
          ELSE /\ last' = Called("get_epsilon_connections", k, x, x, TRUE, <<>>)
               /\ handles' = handles
    /\ ops' = ops + 1
    /\ UNCHANGED <<graphs, cursor, GRAPH_ID>>
    /\ UNCHANGED <<newVars, utf8Vars, callVars, mathVars, threadVars>>

\* graphs[k].collapse_epsilons() is called: the for loop starts at node 0
CollapseEpsilons ==
    /\ ApiReady
    /\ \E k \in 1..Len(graphs) :
          /\ cursor' = [g |-> k, a |-> 0]
          /\ last' = Called("collapse_epsilons", k, NodeRef(0, 0), NodeRef(0, 0),
                            FALSE, <<>>)
    /\ ops' = ops + 1
    /\ UNCHANGED <<graphs, handles, GRAPH_ID>>
    /\ UNCHANGED <<newVars, utf8Vars, callVars, mathVars, threadVars>>

\* collapse_epsilons: one pop of the epsilon list of node cursor.a
CollapseEpsilonsPop ==
    /\ cursor # NoCursor
    /\ graphs[cursor.g].nodes[cursor.a + 1].epsilon_edges # <<>>
    /\ Len(graphs[cursor.g].nodes[cursor.a + 1].edges) <= MaxEdges
    /\ Len(graphs[cursor.g].nodes[cursor.a + 1].epsilon_edges) <= MaxEdges
    /\ graphs' = [graphs EXCEPT ![cursor.g] = collapse_pop(@, cursor.a)]
    /\ UNCHANGED <<handles, last, cursor, ops, GRAPH_ID>>
    /\ UNCHANGED <<newVars, utf8Vars, callVars, mathVars, threadVars>>

\* collapse_epsilons: the list of node cursor.a is empty; the for loop moves
\* on, and the call returns after the last node
CollapseEpsilonsNext ==
    /\ cursor # NoCursor
    /\ graphs[cursor.g].nodes[cursor.a + 1].epsilon_edges = <<>>
    /\ cursor' = IF cursor.a + 1 = Len(graphs[cursor.g].nodes)
                  THEN NoCursor
                  ELSE [cursor EXCEPT !.a = @ + 1]
    /\ UNCHANGED <<graphs, handles, last, ops, GRAPH_ID>>
    /\ UNCHANGED <<newVars, utf8Vars, callVars, mathVars, threadVars>>

NextGraph ==
    \/ NewGraph
    \/ CloneGraph
    \/ GetInitialNode
    \/ AddNode
    \/ Connect
    \/ ConnectEpsilon
    \/ SetFinal
    \/ IsFinal
    \/ GetConnections
    \/ GetEpsilonConnections
    \/ CollapseEpsilons
    \/ CollapseEpsilonsPop
    \/ CollapseEpsilonsNext

SpecGraph == Init /\ [][NextGraph]_vars

-----------------------------------------------------------------------------
(* Claims about the graph API, checked under SpecGraph *)

\* the operations of Graph that take one handle, and those that take two
OneHandleOps == {"set_final", "is_final", "get_connections", "get_epsilon_connections"}

TwoHandleOps == {"connect", "connect_epsilon"}

\* a handle given to the call was issued by another instance than the one
\* the call was made on
ForeignHandle(call, g) ==
    \/ call.x.graph_id # g.id
    \/ call.op \in TwoHandleOps /\ call.y.graph_id # g.id

\* what the call does to instance g (h after it) when it goes through
Proceeds(call, g, h) ==
    LET node  == g.nodes[call.x.index + 1]
        node2 == h.nodes[call.x.index + 1]
    IN  /\ call.op = "connect" =>
              node2.edges = Append(node.edges, <<call.y.index, call.ret[1]>>)
        /\ call.op = "connect_epsilon" =>
              node2.epsilon_edges = Append(node.epsilon_edges, call.y.index)
        /\ call.op = "set_final" => node2.is_final
        /\ call.op = "is_final" => call.ret = <<node.is_final>>
        /\ call.op = "get_connections" =>
              /\ Len(call.ret) = Len(node.edges)
              /\ \A e \in 1..Len(call.ret) :
                    call.ret[e] = NodeRef(g.id, node.edges[e][1])
        /\ call.op = "get_epsilon_connections" =>
              /\ Len(call.ret) = Len(node.epsilon_edges)
              /\ \A e \in 1..Len(call.ret) :
                    call.ret[e] = NodeRef(g.id, node.epsilon_edges[e])
        /\ call.op \in OneHandleOps \ {"set_final"} => h = g

\* C17: a call of connect, connect_epsilon, set_final, is_final,
\* get_connections or get_epsilon_connections with a handle of another
\* instance, a clone included, panics and leaves every graph as it was; with
\* handles of the instance itself it goes through; no two instances, clones
\* included, have the same id
C17_ForeignHandlePanics ==
    [][/\ \A i \in 1..Len(graphs') : \A j \in 1..Len(graphs') :
             i # j => graphs'[i].id # graphs'[j].id
       /\ (ops' = ops + 1 /\ last'.op \in OneHandleOps \cup TwoHandleOps) =>
             IF ForeignHandle(last', graphs[last'.g])
             THEN last'.panic /\ graphs' = graphs
             ELSE /\ ~last'.panic
                  /\ Proceeds(last', graphs[last'.g], graphs'[last'.g])]_vars

\* connect was called on a graph with a node of its own as the source and
\* the initial node of its clone as the target, and panicked
C17_Witness ==
    /\ last.op = "connect"
    /\ last.panic
    /\ Len(graphs) = 2
    /\ graphs[1].nodes = graphs[2].nodes
    /\ last.g = 1
    /\ last.x = NodeRef(graphs[1].id, 1)
    /\ last.y = NodeRef(graphs[2].id, 0)

\* C18: over add_node, connect, connect_epsilon, set_final and the steps of
\* collapse_epsilons, a new node is not final and has no edges, a final flag
\* stays set, a labeled edge stays on its node, no node is removed or
\* renumbered, and collapse_epsilons leaves the number of nodes as it is
C18_GraphOnlyGrows ==
    [][\A k \in 1..Len(graphs) :
         LET g == graphs[k]
             h == graphs'[k]
         IN  /\ Len(graphs') >= Len(graphs)
             /\ h.id = g.id
             /\ get_initial_node(h) = get_initial_node(g)
             /\ Len(h.nodes) >= Len(g.nodes)
             /\ cursor # NoCursor => Len(h.nodes) = Len(g.nodes)
             /\ \A n \in 1..Len(g.nodes) :
                   /\ g.nodes[n].is_final => h.nodes[n].is_final
                   /\ Len(h.nodes[n].edges) >= Len(g.nodes[n].edges)
                   /\ SubSeq(h.nodes[n].edges, 1, Len(g.nodes[n].edges)) = g.nodes[n].edges
             /\ \A n \in (Len(g.nodes) + 1)..Len(h.nodes) :
                   h.nodes[n] = NodeDefault]_vars

\* collapse_epsilons has returned on a graph of two nodes or more whose
\* node 0 took the final flag of another node
C18_Witness ==
    /\ last.op = "collapse_epsilons"
    /\ cursor = NoCursor
    /\ Len(graphs[last.g].nodes) >= 2
    /\ graphs[last.g].nodes[1].is_final
    /\ graphs[last.g].nodes[2].is_final
    /\ \A n \in 1..Len(graphs[last.g].nodes) :
          graphs[last.g].nodes[n].epsilon_edges = <<>>

-----------------------------------------------------------------------------
(* The operations of math.rs called on their own *)

Dims == 1..MaxDim

\* the matrices of a shape, and the two a caller passes as the output
BitMatrices(sx, sy) ==
    {[size_i |-> sx, size_j |-> sy, el |-> e] : e \in [1..(sx * sy) -> BOOLEAN]}

OutMatrices(sx, sy) ==
    {[size_i |-> sx, size_j |-> sy, el |-> [k \in 1..(sx * sy) |-> v]] : v \in BOOLEAN}

\* a call of BitMatrix::mult(&a, &b, &mut c)
BitMatrixMultCall ==
    /\ math.op = "none"
    /\ \E ai \in Dims : \E aj \in Dims : \E bi \in Dims : \E bj \in Dims :
       \E ci \in Dims : \E cj \in Dims :
       \E ma \in BitMatrices(ai, aj) : \E mb \in BitMatrices(bi, bj) :
       \E mc \in OutMatrices(ci, cj) :
          LET r == BitMatrixMult(ma, mb, mc)
          IN  math' = [op |-> "BitMatrix::mult", a |-> ma, b |-> mb, c |-> mc,
                       out |-> r.c, panic |-> r.panic]
    /\ UNCHANGED <<regexVars, utf8Vars, callVars, builderVars, threadVars>>

\* the vectors of a size, and the two a caller passes as the output
BitVectors(n) == {[size |-> n, el |-> e] : e \in [1..n -> BOOLEAN]}

OutVectors(n) == {[size |-> n, el |-> [k \in 1..n |-> v]] : v \in BOOLEAN}

\* a call of BitVector::mult(&a, &b, &mut c)
BitVectorMultCall ==
    /\ math.op = "none"
    /\ \E ai \in Dims : \E aj \in Dims : \E bn \in Dims : \E cn \in Dims :
       \E ma \in BitMatrices(ai, aj) : \E vb \in BitVectors(bn) :
       \E vc \in OutVectors(cn) :
          LET r == BitVectorMultChecked(ma, vb, vc)
          IN  math' = [op |-> "BitVector::mult", a |-> ma, b |-> vb, c |-> vc,
                       out |-> r.c, panic |-> r.panic]
    /\ UNCHANGED <<regexVars, utf8Vars, callVars, builderVars, threadVars>>

NextMath ==
    \/ BitMatrixMultCall
    \/ BitVectorMultCall

SpecMath == Init /\ [][NextMath]_vars

\* C20: BitMatrix::mult is the boolean matrix product for every shape: when
\* a has as many columns as b has rows and c has a's rows and b's columns,
\* the call does not panic and leaves in c[i][j] the OR over k of a[i][k]
\* AND b[k][j]; when a's columns differ from b's rows it panics
C20_BitMatrixMultIsProduct ==
    math.op = "BitMatrix::mult" =>
        /\ (/\ math.a.size_j = math.b.size_i
            /\ math.c.size_i = math.a.size_i
            /\ math.c.size_j = math.b.size_j) =>
              /\ ~math.panic
              /\ \A i \in 0..(math.a.size_i - 1) : \A j \in 0..(math.b.size_j - 1) :
                    BitMatrixGet(math.out, i, j) <=>
                        \E k \in 0..(math.a.size_j - 1) :
                            BitMatrixGet(math.a, i, k) /\ BitMatrixGet(math.b, k, j)
        /\ math.a.size_j # math.b.size_i => math.panic

-----------------------------------------------------------------------------
(* NfaVector::mult and NfaVector::dot called on their own *)

MaxN == 2

MaxValue == 1

Sizes == 1..MaxN

\* Option<usize> over the values of the model
OptValues == {None} \cup {Some(x) : x \in 0..MaxValue}

NfaVectors(n) == {[size |-> n, el |-> e] : e \in [1..n -> OptValues]}

\* the two vectors a caller passes as the output: a fresh one and one whose
\* elements all hold a value
OutNfaVectors(n) ==
    {[size |-> n, el |-> [k \in 1..n |-> v]] : v \in {None, Some(MaxValue)}}

\* a call of NfaVector::mult(&a, &b, &mut c)
NfaVectorMultCall ==
    /\ math.op = "none"
    /\ \E ai \in Sizes : \E aj \in Sizes : \E bn \in Sizes : \E cn \in Sizes :
       \E ma \in BitMatrices(ai, aj) : \E vb \in NfaVectors(bn) :
       \E vc \in OutNfaVectors(cn) :
          LET r == NfaVectorMultChecked(ma, vb, vc)
          IN  math' = [op |-> "NfaVector::mult", a |-> ma, b |-> vb, c |-> vc,
                       out |-> r.c, panic |-> r.panic]
    /\ UNCHANGED <<regexVars, utf8Vars, callVars, builderVars, threadVars>>

\* a call of NfaVector::dot(&a, &b)
NfaVectorDotCall ==
    /\ math.op = "none"
    /\ \E an \in Sizes : \E bn \in Sizes :
       \E va \in NfaVectors(an) : \E vb \in BitVectors(bn) :
          LET r == NfaVectorDotChecked(va, vb)
          IN  math' = [op |-> "NfaVector::dot", a |-> va, b |-> vb,
                       ret |-> r.ret, panic |-> r.panic]
    /\ UNCHANGED <<regexVars, utf8Vars, callVars, builderVars, threadVars>>

NextNfa ==
    \/ NfaVectorMultCall
    \/ NfaVectorDotCall

SpecNfa == Init /\ [][NextNfa]_vars

\* the minimum of a set of values as an Option: None for the empty set
MinOf(S) == IF S = {} THEN None ELSE Some(CHOOSE x \in S : \A y \in S : x <= y)

\* C22: for an N-by-N matrix and vectors of size N, NfaVector::mult does not
\* panic and overwrites every out[i] with the minimum of the reachable v[k]
\* over the k with M[i][k] true, None when there is none; NfaVector::dot on
\* vectors of one size returns the minimum of the reachable a[i] over the i
\* with b[i] true, None when there is none; min_some is commutative,
\* associative and has None as identity
C22_NfaMultDotAreMinimum ==
    /\ (/\ math.op = "NfaVector::mult"
        /\ math.a.size_i = math.a.size_j
        /\ math.b.size = math.a.size_i
        /\ math.c.size = math.a.size_i) =>
          /\ ~math.panic
          /\ math.out.size = math.c.size
          /\ \A i \in 0..(math.out.size - 1) :
                NfaVectorGet(math.out, i) =
                    MinOf({NfaVectorGet(math.b, k)[1] :
                             k \in {k \in 0..(math.b.size - 1) :
                                       /\ BitMatrixGet(math.a, i, k)
                                       /\ NfaVectorGet(math.b, k) # None}})
    /\ (math.op = "NfaVector::dot" /\ math.a.size = math.b.size) =>
          /\ ~math.panic
          /\ math.ret =
                MinOf({NfaVectorGet(math.a, i)[1] :
                         i \in {i \in 0..(math.a.size - 1) :
                                   /\ BitVectorGet(math.b, i)
                                   /\ NfaVectorGet(math.a, i) # None}})
    /\ math.op \in {"NfaVector::mult", "NfaVector::dot"} =>
          \A x \in OptValues : \A y \in OptValues : \A z \in OptValues :
             /\ min_some(x, y) = min_some(y, x)
             /\ min_some(min_some(x, y), z) = min_some(x, min_some(y, z))
             /\ min_some(None, x) = x
             /\ min_some(x, None) = x

\* NfaVector::mult has returned on a 2-by-2 matrix whose row 0 selects two
\* reachable values, the smaller one met second, and whose row 1 selects
\* nothing, with an output vector that held values before the call
C22_Witness ==
    /\ math.op = "NfaVector::mult"
    /\ ~math.panic
    /\ math.a.size_i = 2 /\ math.a.size_j = 2
    /\ BitMatrixGet(math.a, 0, 0) /\ BitMatrixGet(math.a, 0, 1)
    /\ ~BitMatrixGet(math.a, 1, 0) /\ ~BitMatrixGet(math.a, 1, 1)
    /\ math.b.el = <<Some(1), Some(0)>>
    /\ math.c.el = <<Some(MaxValue), Some(MaxValue)>>
    /\ math.out.el = <<Some(0), None>>

\* C21: BitVector::mult is the boolean matrix-vector product for every
\* shape: when the matrix has as many columns as the vector has elements and
\* the output has as many elements as the matrix has rows, the call does not
\* panic and leaves in out[i] the OR over k of M[i][k] AND v[k]; when the
\* matrix's columns differ from the vector's size it panics
C21_BitVectorMultIsProduct ==
    math.op = "BitVector::mult" =>
        /\ (math.a.size_j = math.b.size /\ math.c.size = math.a.size_i) =>
              /\ ~math.panic
              /\ \A i \in 0..(math.a.size_i - 1) :
                    BitVectorGet(math.out, i) <=>
                        \E k \in 0..(math.a.size_j - 1) :
                            BitMatrixGet(math.a, i, k) /\ BitVectorGet(math.b, k)
        /\ math.a.size_j # math.b.size => math.panic

-----------------------------------------------------------------------------
(* Several threads creating graphs: Graph::new and Graph::clone run in three *)
(* steps, the nodes field, the fetch_add on GRAPH_ID, and the return of the  *)
(* Graph; the steps of different threads interleave freely                   *)

\* graphs returned or still being built
Started == Len(graphs) + Cardinality({t \in Threads : threads[t].pc # "idle"})

\* Graph::new(): nodes: vec![Node::default()]
GraphNewBegin(t) ==
    /\ threads[t].pc = "idle"
    /\ Started < MaxCreated
    /\ threads' = [threads EXCEPT ![t] = [pc |-> "fetch_add",
                                          nodes |-> GraphNew(0).nodes, id |-> 0]]
    /\ UNCHANGED <<graphs, issued, GRAPH_ID>>
    /\ UNCHANGED <<handles, last, cursor, ops>>
    /\ UNCHANGED <<newVars, utf8Vars, callVars, mathVars>>

\* graphs[k].clone(): nodes: self.nodes.clone()
GraphCloneBegin(t) ==
    /\ threads[t].pc = "idle"
    /\ Started < MaxCreated
    /\ \E k \in 1..Len(graphs) :
          threads' = [threads EXCEPT ![t] = [pc |-> "fetch_add",
                                             nodes |-> clone(graphs[k], 0).nodes,
                                             id |-> 0]]
    /\ UNCHANGED <<graphs, issued, GRAPH_ID>>
    /\ UNCHANGED <<handles, last, cursor, ops>>
    /\ UNCHANGED <<newVars, utf8Vars, callVars, mathVars>>

\* id: GRAPH_ID.fetch_add(1, Ordering::Relaxed)
FetchAdd(t) ==
    /\ threads[t].pc = "fetch_add"
    /\ LET r == fetch_add(GRAPH_ID, 1)
       IN  /\ threads' = [threads EXCEPT ![t].pc = "return", ![t].id = r.ret]
           /\ GRAPH_ID' = r.stored
    /\ UNCHANGED <<graphs, issued>>
    /\ UNCHANGED <<handles, last, cursor, ops>>
    /\ UNCHANGED <<newVars, utf8Vars, callVars, mathVars>>

\* the Graph { nodes, id } is returned to the thread
GraphReturn(t) ==
    /\ threads[t].pc = "return"
    /\ graphs' = Append(graphs, [nodes |-> threads[t].nodes, id |-> threads[t].id])
    /\ threads' = [threads EXCEPT ![t] = IdleThread]
    /\ UNCHANGED <<issued, GRAPH_ID>>
    /\ UNCHANGED <<handles, last, cursor, ops>>
    /\ UNCHANGED <<newVars, utf8Vars, callVars, mathVars>>

\* graphs[k].get_initial_node() called by thread t
ThreadGetInitialNode(t) ==
    /\ threads[t].pc = "idle"
    /\ \E k \in 1..Len(graphs) :
          issued' = issued \cup {[by |-> k, x |-> get_initial_node(graphs[k])]}
    /\ UNCHANGED <<graphs, threads, GRAPH_ID>>
    /\ UNCHANGED <<handles, last, cursor, ops>>
    /\ UNCHANGED <<newVars, utf8Vars, callVars, mathVars>>

\* graphs[k].add_node() called by thread t
ThreadAddNode(t) ==
    /\ threads[t].pc = "idle"
    /\ \E k \in 1..Len(graphs) :
          /\ Len(graphs[k].nodes) < MaxNodes
          /\ LET g == add_node(graphs[k])
             IN  /\ graphs' = [graphs EXCEPT ![k] = g]
                 /\ issued' = issued \cup {[by |-> k, x |-> LastNode(g)]}
    /\ UNCHANGED <<threads, GRAPH_ID>>
    /\ UNCHANGED <<handles, last, cursor, ops>>
    /\ UNCHANGED <<newVars, utf8Vars, callVars, mathVars>>

NextThreads ==
    \E t \in Threads :
        \/ GraphNewBegin(t)
        \/ GraphCloneBegin(t)
        \/ FetchAdd(t)
        \/ GraphReturn(t)
        \/ ThreadGetInitialNode(t)
        \/ ThreadAddNode(t)

SpecThreads == Init /\ [][NextThreads]_vars

\* the ids taken so far: of the graphs returned and of those about to be
TakenIds ==
    [k \in 1..Len(graphs) |-> graphs[k].id] \o
    [n \in 1..Cardinality({t \in Threads : threads[t].pc = "return"}) |->
        LET ts == {t \in Threads : threads[t].pc = "return"}
            nth == CHOOSE f \in [1..Cardinality(ts) -> ts] :
                      \A i \in 1..Cardinality(ts) : \A j \in 1..Cardinality(ts) :
                         i < j => f[i] < f[j]
        IN  threads[nth[n]].id]

\* C23: under every interleaving of Graph::new and Graph::clone made by
\* several threads, each graph takes its id by one fetch_add of GRAPH_ID:
\* the counter equals the number of ids taken, no two graphs, returned or
\* about to be, share an id, and a handle issued by one graph satisfies
\* owns_node of that graph and of no other
C23_GraphIdsUnique ==
    /\ GRAPH_ID = Len(TakenIds)
    /\ \A i \in 1..Len(TakenIds) : \A j \in 1..Len(TakenIds) :
          i # j => TakenIds[i] # TakenIds[j]
    /\ \A h \in issued : \A k \in 1..Len(graphs) :
          owns_node(graphs[k], h.x) <=> k = h.by

\* two threads are inside Graph::new / Graph::clone at once, both past their
\* fetch_add, while a graph returned earlier has issued a handle
C23_Witness ==
    /\ \E t \in Threads : \E u \in Threads :
          /\ t # u
          /\ threads[t].pc = "return"
          /\ threads[u].pc = "return"
          /\ Len(threads[u].nodes) = MaxNodes
    /\ Len(graphs) >= 1
    /\ \E h \in issued : h.x.index = 1

-----------------------------------------------------------------------------
(* Regex::new alone; the caller's thread always takes its next step *)

NextNew ==
    \/ RegexNew
    \/ CollapsePop
    \/ CollapseNext
    \/ Compile

SpecNew == Init /\ [][NextNew]_vars /\ WF_vars(NextNew)

\* C5: Regex::new terminates for every grammatical pattern: once
\* collapse_epsilons has started, it returns and the regex is compiled
C5_CollapseTerminates == (pc = "collapse") ~> (pc = "compiled")

=============================================================================
